---- MODULE Spec2Model ----
(***************************************************************************)
(* A model of the Virtumancer host/VM control plane:                       *)
(*   - the MonitoringManager (per-VM statistics pollers and their          *)
(*     subscriber sets), internal/services/host_service.go;                *)
(*   - the console proxy (WebSocket <-> TCP splice), package console;      *)
(*   - the reconciler (syncSingleVM, syncVMHardware, syncAndListVMs) and   *)
(*     the host operations (AddHost, RemoveHost) over the gorm store;      *)
(*   - the lifecycle verbs, the connection pool and the WebSocket hub.     *)
(* Each subsystem has its own next-state relation and specification; the   *)
(* variables of the other subsystems stay at their initial values.         *)
(***************************************************************************)
EXTENDS Integers, Sequences, FiniteSets, TLC

VARIABLES
    \* ---- MonitoringManager ----
    subscriptions,   \* m.subscriptions: key -> subscription object (0: no entry)
    subKey,          \* the key a subscription object was created for
    subClients,      \* sub.clients
    subStop,         \* TRUE once close(sub.stop) has run
    subLast,         \* sub.lastKnownStats ("nil" before the first sample)
    pollPc,          \* position of the pollVmStats goroutine of each object
    pollStats,       \* the goroutine's local stats.State
    nextSub,         \* next subscription object to allocate
    lastBroadcast,   \* the last message handed to hub.BroadcastMessage
    disconnected,    \* sessions for which HandleClientDisconnect has run
    \* ---- console proxy (one HandleConsole / HandleSpiceConsole request) ----
    cxHandler,       \* position of the handler
    cxWs,            \* the WebSocket: "open", "peerClosed", "closed" (by us)
    cxTcp,           \* the TCP socket: "none", "open", "peerClosed", "closed"
    cxUp,            \* goroutine io.Copy(target, wrappedWsConn)
    cxDown,          \* goroutine io.Copy(wrappedWsConn, target)
    wsIn,            \* messages the browser sent that are not read yet
    tcpIn,           \* chunks the TCP peer sent that are not read yet
    \* ---- hosts, reconciler and store ----
    hv,              \* the hypervisors: host -> set of live domains
    hvChanges,       \* number of inventory changes made so far
    opsStarted,      \* number of service operations begun so far
    pool,            \* Connector.connections: the host ids with a handle
    db,              \* the gorm store: one field per table
    task,            \* the request / background tasks and their locals
    lastEvent,       \* the last hosts-changed / vms-changed message broadcast
    spawned,         \* host -> SyncVMsForHost goroutines spawned, not begun
    lastReturn,      \* what the last host or lifecycle request returned
    lastTx,          \* what the last reconcile transaction did (history)
    \* ---- the connection pool in detail ----
    connections,     \* Connector.connections: host id -> handle (0: no entry)
    dials,           \* number of network dials made so far
    poolRet,         \* what the last call of the Connector returned
    \* ---- the WebSocket hub ----
    hubClients,      \* Hub.clients: the registered clients
    sendCh,          \* client.send: the messages buffered for each client
    sendClosed,      \* TRUE once close(client.send) has run
    delivered,       \* the messages each client's writer wrote to its socket
    published,       \* the messages the hub took from h.broadcast, in order
    evicted,         \* the clients the broadcast loop dropped
    closeCalls,      \* close(client.send) calls made per client
    \* ---- vm_stats requests ----
    statsRet,        \* what the last GetVMStats call did and returned
    \* ---- the console proxy's dial target ----
    cxReq,           \* the request: console kind, domain XML, stored host row
    cxTarget,        \* what the handler resolved and whether it dialed
    \* ---- the pool's lock ----
    mu,              \* Connector.mu: the task holding it for writing (0: none)
    call,            \* each task's position in a call of the Connector
    \* ---- the MonitoringManager's locks ----
    monMu,           \* the goroutine holding MonitoringManager.mu
    subMu,           \* the goroutine holding each VmSubscription.mu
    monCall          \* each task's position in a call of the manager

monVars == <<subscriptions, subKey, subClients, subStop, subLast, pollPc,
             pollStats, nextSub, lastBroadcast, disconnected>>

proxyVars == <<cxHandler, cxWs, cxTcp, cxUp, cxDown, wsIn, tcpIn>>

recVars == <<hv, hvChanges, opsStarted, pool, db, task, lastEvent,
            spawned, lastReturn, lastTx>>

poolVars == <<connections, dials, poolRet>>

hubVars == <<hubClients, sendCh, sendClosed, delivered, published, evicted,
             closeCalls>>

statsVars == <<statsRet>>

targetVars == <<cxReq, cxTarget>>

lockVars == <<mu, call>>
mlockVars == <<monMu, subMu, monCall>>

vars == <<monVars, proxyVars, recVars, poolVars, hubVars, statsVars,
          targetVars, lockVars, mlockVars>>

\* what the actions of one subsystem leave alone
notMonHub ==
    <<proxyVars, recVars, poolVars, statsVars, targetVars, lockVars, mlockVars>>
notMon == <<notMonHub, hubVars>>
notProxy == <<monVars, recVars, poolVars, hubVars, statsVars,
    targetVars, lockVars, mlockVars>>
notRec == <<monVars, proxyVars, poolVars, hubVars, statsVars,
    targetVars, lockVars, mlockVars>>
notPool == <<monVars, proxyVars, recVars, hubVars, statsVars,
    targetVars, lockVars, mlockVars>>

----------------------------------------------------------------------------
(* Bounds of the MonitoringManager model *)

\* subscription objects (and so pollVmStats goroutines) ever created
MaxSubs == 3

Keys == {"h1:vm1", "h1:vm2"}
Clients == {"c1", "c2"}
SubIds == 1..MaxSubs
NoSub == 0

StatStates == {"running", "shutoff"}

----------------------------------------------------------------------------
(* MonitoringManager *)

MonInit ==
    /\ subscriptions = [k \in Keys |-> NoSub]
    /\ subKey = [i \in SubIds |-> "none"]
    /\ subClients = [i \in SubIds |-> {}]
    /\ subStop = [i \in SubIds |-> FALSE]
    /\ subLast = [i \in SubIds |-> "nil"]
    /\ pollPc = [i \in SubIds |-> "unborn"]
    /\ pollStats = [i \in SubIds |-> "nil"]
    /\ nextSub = 1
    /\ lastBroadcast = <<"none", "nil">>
    /\ disconnected = {}

\* a delete that leaves the map as it is
DeleteEntry_Noop(m, k) == m

\* delete(m.subscriptions, key): removes whatever entry the key has now.
DeleteEntry(m, k) == [m EXCEPT ![k] = NoSub]

\* a Subscribe that makes a subscription and starts a poller on every call
Subscribe_AlwaysSpawn(c, k) ==
    /\ c \notin disconnected
    /\ nextSub <= MaxSubs
    /\ subscriptions' = [subscriptions EXCEPT ![k] = nextSub]
    /\ subKey' = [subKey EXCEPT ![nextSub] = k]
    /\ subClients' = [subClients EXCEPT ![nextSub] = {c}]
    /\ pollPc' = [pollPc EXCEPT ![nextSub] = "select"]
    /\ nextSub' = nextSub + 1
    /\ UNCHANGED <<subStop, subLast, pollStats, lastBroadcast,
                   disconnected>>
    /\ UNCHANGED notMon

\* MonitoringManager.Subscribe, under m.mu.
Subscribe(c, k) ==
    /\ c \notin disconnected
    /\ IF subscriptions[k] = NoSub
       THEN /\ nextSub <= MaxSubs
            /\ subscriptions' = [subscriptions EXCEPT ![k] = nextSub]
            /\ subKey' = [subKey EXCEPT ![nextSub] = k]
            /\ subClients' = [subClients EXCEPT ![nextSub] = {c}]
            /\ pollPc' = [pollPc EXCEPT ![nextSub] = "select"]
            /\ nextSub' = nextSub + 1
       ELSE /\ subClients' = [subClients EXCEPT
                                 ![subscriptions[k]] = @ \cup {c}]
            /\ UNCHANGED <<subscriptions, subKey, pollPc, nextSub>>
    /\ UNCHANGED <<subStop, subLast, pollStats, lastBroadcast,
                   disconnected>>
    /\ UNCHANGED notMon

\* the same with the entry left in the map when its last client goes
RemoveClient_KeepEntry(st, c, k) ==
    LET i == st.subscriptions[k]
        left == st.subClients[i] \ {c}
    IN  IF i = NoSub THEN st
        ELSE IF left = {}
             THEN [subscriptions |-> st.subscriptions,
                   subClients |-> [st.subClients EXCEPT ![i] = left],
                   subStop |-> [st.subStop EXCEPT ![i] = TRUE]]
             ELSE [st EXCEPT !.subClients[i] = left]

\* The part of Unsubscribe / UnsubscribeClient run on one entry: delete the
\* client and, when the set is empty, close(sub.stop) and delete the entry.
RemoveClient(st, c, k) ==
    LET i == st.subscriptions[k]
        left == st.subClients[i] \ {c}
    IN  IF i = NoSub THEN st
        ELSE IF left = {}
             THEN [subscriptions |-> DeleteEntry(st.subscriptions, k),
                   subClients |-> [st.subClients EXCEPT ![i] = left],
                   subStop |-> [st.subStop EXCEPT ![i] = TRUE]]
             ELSE [st EXCEPT !.subClients[i] = left]

MonState == [subscriptions |-> subscriptions, subClients |-> subClients,
             subStop |-> subStop]

\* MonitoringManager.Unsubscribe, under m.mu.
Unsubscribe(c, k) ==
    /\ c \notin disconnected
    /\ LET st == RemoveClient(MonState, c, k)
       IN  /\ subscriptions' = st.subscriptions
           /\ subClients' = st.subClients
           /\ subStop' = st.subStop
    /\ UNCHANGED <<subKey, subLast, pollPc, pollStats, nextSub, lastBroadcast,
                   disconnected>>
    /\ UNCHANGED notMon

RECURSIVE RemoveFromAll(_, _, _)
\* The range loop of UnsubscribeClient over the entries that list the client.
RemoveFromAll(st, c, ks) ==
    IF ks = {} THEN st
    ELSE LET k == CHOOSE x \in ks : TRUE
             i == st.subscriptions[k]
             st2 == IF i # NoSub /\ c \in st.subClients[i]
                    THEN RemoveClient(st, c, k) ELSE st
         IN  RemoveFromAll(st2, c, ks \ {k})

\* HandleClientDisconnect -> MonitoringManager.UnsubscribeClient, under m.mu.
UnsubscribeClient(c) ==
    /\ c \notin disconnected
    /\ LET st == RemoveFromAll(MonState, c, Keys)
       IN  /\ subscriptions' = st.subscriptions
           /\ subClients' = st.subClients
           /\ subStop' = st.subStop
    /\ disconnected' = disconnected \cup {c}
    /\ UNCHANGED <<subKey, subLast, pollPc, pollStats, nextSub, lastBroadcast>>
    /\ UNCHANGED notMon

\* What a GetDomainStats call can yield: the state the hypervisor reports for
\* the domain, or an error.
StatsResults == StatStates \cup {"error"}

\* pollVmStats, case <-ticker.C: the GetDomainStats call.  A failing call is
\* replaced by a sample with State = DomainShutoff.
PollFetch(i) ==
    /\ pollPc[i] = "select"
    /\ \E r \in StatsResults :
         pollStats' = [pollStats EXCEPT ![i] =
                          IF r = "error" THEN "shutoff" ELSE r]
    /\ pollPc' = [pollPc EXCEPT ![i] = "fetched"]
    /\ UNCHANGED <<subscriptions, subKey, subClients, subStop, subLast,
                   nextSub, lastBroadcast, disconnected>>
    /\ UNCHANGED notMon

\* pollVmStats: store lastKnownStats under sub.mu, then BroadcastMessage.
PollPublishStep(i) ==
    /\ pollPc[i] = "fetched"
    /\ subLast' = [subLast EXCEPT ![i] = pollStats[i]]
    /\ lastBroadcast' = <<subKey[i], pollStats[i]>>
    /\ pollPc' = [pollPc EXCEPT ![i] = "published"]
    /\ UNCHANGED <<subscriptions, subKey, subClients, subStop, pollStats,
                   nextSub, disconnected>>
    /\ UNCHANGED notMonHub

\* the same, leaving out what the hub does with the message
PollPublish(i) == PollPublishStep(i) /\ UNCHANGED hubVars

\* a poller that returns without touching the map
PollDelete_KeepEntry(m, i) == m

\* pollVmStats: the entry the goroutine removes when the VM is not running.
PollDelete(m, i) == DeleteEntry(m, subKey[i])

\* pollVmStats: if the state is not running, delete the map entry of the key
\* under m.mu and return; otherwise go back to the select (the local stats
\* goes out of scope either way).
PollFinish(i) ==
    /\ pollPc[i] = "published"
    /\ IF pollStats[i] # "running"
       THEN /\ subscriptions' = PollDelete(subscriptions, i)
            /\ pollPc' = [pollPc EXCEPT ![i] = "exited"]
       ELSE /\ pollPc' = [pollPc EXCEPT ![i] = "select"]
            /\ UNCHANGED subscriptions
    /\ pollStats' = [pollStats EXCEPT ![i] = "nil"]
    /\ UNCHANGED <<subKey, subClients, subStop, subLast, nextSub,
                   lastBroadcast, disconnected>>
    /\ UNCHANGED notMon

\* pollVmStats, case <-sub.stop.
PollStop(i) ==
    /\ pollPc[i] = "select"
    /\ subStop[i]
    /\ pollPc' = [pollPc EXCEPT ![i] = "exited"]
    /\ UNCHANGED <<subscriptions, subKey, subClients, subStop, subLast,
                   pollStats, nextSub, lastBroadcast, disconnected>>
    /\ UNCHANGED notMon

MonNext ==
    \/ \E c \in Clients, k \in Keys : Subscribe(c, k)
    \/ \E c \in Clients, k \in Keys : Unsubscribe(c, k)
    \/ \E c \in Clients : UnsubscribeClient(c)
    \/ \E i \in SubIds : PollFetch(i)
    \/ \E i \in SubIds : PollPublish(i)
    \/ \E i \in SubIds : PollFinish(i)
    \/ \E i \in SubIds : PollStop(i)

\* the sessions' requests for one VM, and the pollers
PollerNext ==
    \/ \E c \in Clients : Subscribe(c, "h1:vm1")
    \/ \E c \in Clients : Unsubscribe(c, "h1:vm1")
    \/ \E c \in Clients : UnsubscribeClient(c)
    \/ \E i \in SubIds : PollFetch(i)
    \/ \E i \in SubIds : PollPublish(i)
    \/ \E i \in SubIds : PollFinish(i)
    \/ \E i \in SubIds : PollStop(i)

\* what a GetVMStats call did: where the result came from, the result
\* (a state, or "error"), and the driver calls it made
StatsReturn(k, from, value, calls) ==
    [key |-> k, from |-> from, value |-> value, calls |-> calls]

StatsInit == statsRet = StatsReturn("none", "none", "nil", 0)

\* a lookup that takes the newest subscription object ever made for the key
LastKnownStats_AnyObject(k) ==
    LET made == {i \in SubIds : subKey[i] = k}
    IN  IF made = {} THEN "nil"
        ELSE subLast[CHOOSE i \in made : \A j \in made : j <= i]

\* MonitoringManager.GetLastKnownStats, under m.mu: the sample of the
\* subscription the map holds for the key, nil without one.
LastKnownStats(k) ==
    IF subscriptions[k] = NoSub THEN "nil" ELSE subLast[subscriptions[k]]

\* HostService.GetVMStats: the last known sample if there is one, else one
\* GetDomainStats call, whose result or error is returned.
GetVMStatsWith(k, r) ==
    /\ statsRet' = IF LastKnownStats(k) # "nil"
                   THEN StatsReturn(k, "monitor", LastKnownStats(k), 0)
                   ELSE StatsReturn(k, "driver", r, 1)
    /\ UNCHANGED <<monVars, proxyVars, recVars, poolVars, hubVars, targetVars,
                   lockVars, mlockVars>>

GetVMStats(k) == \E r \in StatsResults : GetVMStatsWith(k, r)

\* the sessions' requests for one VM, the pollers, and vm_stats requests
StatsNext ==
    \/ PollerNext
    \/ GetVMStats("h1:vm1")

----------------------------------------------------------------------------
(* Properties of the MonitoringManager *)

\* No poller is between the start of a GetDomainStats call and the end of its
\* tick (Subscribe, Unsubscribe and UnsubscribeClient are atomic under m.mu).
Quiescent == \A i \in SubIds : pollPc[i] \in {"unborn", "select", "exited"}

\* A poller that has decided to return: it holds a sample that is not running.
DecidedToExit(i) ==
    pollPc[i] \in {"fetched", "published"} /\ pollStats[i] # "running"

\* A live polling task: started, not returned, its stop channel not closed
\* and not on its way out.
Live(i) ==
    /\ pollPc[i] \in {"select", "fetched", "published"}
    /\ ~subStop[i]
    /\ ~DecidedToExit(i)

HasSubscribers(k) ==
    subscriptions[k] # NoSub /\ subClients[subscriptions[k]] # {}

\* C1 (I4): at every quiescent state, for every key, a polling task for the
\* key is running iff the map holds an entry for the key with a non-empty
\* subscriber set.
C1_PollerIffSubscribers ==
    Quiescent =>
        \A k \in Keys :
            (\E i \in SubIds : subKey[i] = k /\ Live(i)) <=> HasSubscribers(k)

\* C2: for every key there is at any time at most one live polling task.
C2_AtMostOneLivePoller ==
    \A k \in Keys :
        Cardinality({i \in SubIds : subKey[i] = k /\ Live(i)}) <= 1

\* C3 (I5): once unsubscribe_all(session) has returned, no subscription that
\* is still being polled (its poller neither stopped nor returned) lists the
\* session: the server has stopped, or is about to stop, polling on behalf of
\* that session.
C3_DisconnectedNotListed ==
    \A c \in disconnected :
        \A i \in SubIds :
            (pollPc[i] \in {"select", "fetched", "published"} /\ ~subStop[i])
                => c \notin subClients[i]

----------------------------------------------------------------------------
(* Console proxy: HandleConsole (VNC) and HandleSpiceConsole have the same   *)
(* shape from the upgrade on; one request is modelled.                      *)

\* unread messages / chunks a peer may have in flight
MaxPending == 2

ProxyInit ==
    /\ cxHandler = "upgraded"
    /\ cxWs = "open"
    /\ cxTcp = "none"
    /\ cxUp = "idle"
    /\ cxDown = "idle"
    /\ wsIn = 0
    /\ tcpIn = 0

\* The deferred wsConn.Close() / target.Close() of the handler.
DeferredClose(conn) == IF conn = "none" THEN "none" ELSE "closed"

\* The handler up to net.Dial: any lookup, parse or dial failure returns (the
\* deferred wsConn.Close() runs); otherwise both copy goroutines are started
\* and the handler blocks in wg.Wait().
ProxySetup ==
    /\ cxHandler = "upgraded"
    /\ \E ok \in BOOLEAN :
         IF ok
         THEN /\ cxHandler' = "splicing"
              /\ cxTcp' = "open"
              /\ cxUp' = "reading"
              /\ cxDown' = "reading"
              /\ UNCHANGED cxWs
         ELSE /\ cxHandler' = "returned"
              /\ cxWs' = DeferredClose(cxWs)
              /\ UNCHANGED <<cxTcp, cxUp, cxDown>>
    /\ UNCHANGED <<wsIn, tcpIn>>
    /\ UNCHANGED notProxy

\* What a read on a connection yields: "data", "error" (EOF included) or
\* "blocked".  A connection closed by this process fails at once; one closed
\* by the peer still delivers what was sent before the close.
ReadOutcome(conn, pending) ==
    IF conn = "closed" THEN "error"
    ELSE IF pending > 0 THEN "data"
    ELSE IF conn = "peerClosed" THEN "error"
    ELSE "blocked"

\* What a write can yield: it succeeds on an open connection, fails on one this
\* process closed, and may do either on one the peer closed.
WriteOutcomes(conn) ==
    IF conn = "open" THEN {"ok"}
    ELSE IF conn = "closed" THEN {"error"}
    ELSE {"ok", "error"}

\* What the copy goroutines do when a copy returns: wg.Done(), nothing else.
AfterCopy(conn) == conn

\* io.Copy(target, wrappedWsConn): wsConnWrapper.Read.
UpRead ==
    /\ cxUp = "reading"
    /\ ReadOutcome(cxWs, wsIn) # "blocked"
    /\ IF ReadOutcome(cxWs, wsIn) = "data"
       THEN /\ cxUp' = "writing"
            /\ wsIn' = wsIn - 1
            /\ UNCHANGED <<cxWs, cxTcp>>
       ELSE /\ cxUp' = "done"
            /\ cxTcp' = AfterCopy(cxTcp)
            /\ cxWs' = AfterCopy(cxWs)
            /\ UNCHANGED wsIn
    /\ UNCHANGED <<cxHandler, cxDown, tcpIn>>
    /\ UNCHANGED notProxy

\* io.Copy(target, wrappedWsConn): target.Write.
UpWrite ==
    /\ cxUp = "writing"
    /\ \E r \in WriteOutcomes(cxTcp) :
         IF r = "ok"
         THEN /\ cxUp' = "reading"
              /\ UNCHANGED <<cxWs, cxTcp>>
         ELSE /\ cxUp' = "done"
              /\ cxTcp' = AfterCopy(cxTcp)
              /\ cxWs' = AfterCopy(cxWs)
    /\ UNCHANGED <<cxHandler, cxDown, wsIn, tcpIn>>
    /\ UNCHANGED notProxy

\* io.Copy(wrappedWsConn, target): target.Read.
DownRead ==
    /\ cxDown = "reading"
    /\ ReadOutcome(cxTcp, tcpIn) # "blocked"
    /\ IF ReadOutcome(cxTcp, tcpIn) = "data"
       THEN /\ cxDown' = "writing"
            /\ tcpIn' = tcpIn - 1
            /\ UNCHANGED <<cxWs, cxTcp>>
       ELSE /\ cxDown' = "done"
            /\ cxTcp' = AfterCopy(cxTcp)
            /\ cxWs' = AfterCopy(cxWs)
            /\ UNCHANGED tcpIn
    /\ UNCHANGED <<cxHandler, cxUp, wsIn>>
    /\ UNCHANGED notProxy

\* io.Copy(wrappedWsConn, target): wsConnWrapper.Write.
DownWrite ==
    /\ cxDown = "writing"
    /\ \E r \in WriteOutcomes(cxWs) :
         IF r = "ok"
         THEN /\ cxDown' = "reading"
              /\ UNCHANGED <<cxWs, cxTcp>>
         ELSE /\ cxDown' = "done"
              /\ cxTcp' = AfterCopy(cxTcp)
              /\ cxWs' = AfterCopy(cxWs)
    /\ UNCHANGED <<cxHandler, cxUp, wsIn, tcpIn>>
    /\ UNCHANGED notProxy

\* a handler that waits for the first of the two goroutines only
HandlerReturn_AfterFirst ==
    /\ cxHandler = "splicing"
    /\ cxUp = "done" \/ cxDown = "done"
    /\ cxHandler' = "returned"
    /\ cxTcp' = DeferredClose(cxTcp)
    /\ cxWs' = DeferredClose(cxWs)
    /\ UNCHANGED <<cxUp, cxDown, wsIn, tcpIn>>
    /\ UNCHANGED notProxy

\* wg.Wait() returns once both goroutines are done; the handler returns and
\* its deferred target.Close() and wsConn.Close() run.
HandlerReturn ==
    /\ cxHandler = "splicing"
    /\ cxUp = "done"
    /\ cxDown = "done"
    /\ cxHandler' = "returned"
    /\ cxTcp' = DeferredClose(cxTcp)
    /\ cxWs' = DeferredClose(cxWs)
    /\ UNCHANGED <<cxUp, cxDown, wsIn, tcpIn>>
    /\ UNCHANGED notProxy

\* The steps of the server itself.
ProxyProgram ==
    \/ ProxySetup
    \/ UpRead
    \/ UpWrite
    \/ DownRead
    \/ DownWrite
    \/ HandlerReturn

\* The browser sends a message, or closes the WebSocket.
BrowserSend ==
    /\ cxWs = "open"
    /\ wsIn < MaxPending
    /\ wsIn' = wsIn + 1
    /\ UNCHANGED <<cxHandler, cxWs, cxTcp, cxUp, cxDown, tcpIn>>
    /\ UNCHANGED notProxy

BrowserClose ==
    /\ cxWs = "open"
    /\ cxWs' = "peerClosed"
    /\ UNCHANGED <<cxHandler, cxTcp, cxUp, cxDown, wsIn, tcpIn>>
    /\ UNCHANGED notProxy

\* The VNC / SPICE server sends bytes, or closes the connection.
PeerSend ==
    /\ cxTcp = "open"
    /\ tcpIn < MaxPending
    /\ tcpIn' = tcpIn + 1
    /\ UNCHANGED <<cxHandler, cxWs, cxTcp, cxUp, cxDown, wsIn>>
    /\ UNCHANGED notProxy

PeerClose ==
    /\ cxTcp = "open"
    /\ cxTcp' = "peerClosed"
    /\ UNCHANGED <<cxHandler, cxWs, cxUp, cxDown, wsIn, tcpIn>>
    /\ UNCHANGED notProxy

ProxyNext ==
    \/ ProxySetup
    \/ UpRead
    \/ UpWrite
    \/ DownRead
    \/ DownWrite
    \/ HandlerReturn
    \/ BrowserSend
    \/ BrowserClose
    \/ PeerSend
    \/ PeerClose

\* C4: once either copy loop has returned, the handler returns without any
\* further help from the two peers: either it has returned, or a step of the
\* server itself (the other copy loop unblocking, wg.Wait returning) is
\* possible, even if the peer on the other side stays connected and idle.
C4_CopyReturnUnblocksOther ==
    (cxUp = "done" \/ cxDown = "done")
        => (cxHandler = "returned" \/ ENABLED ProxyProgram)

\* a copy loop is running: started and not returned
CopyRunning == {cxUp, cxDown} \cap {"reading", "writing"} # {}

\* C30: while either copy loop is still running the handler has not
\* returned and neither the TCP socket nor the WebSocket has been closed by
\* the handler's deferred Close.
C30_NoReturnWhileCopying ==
    CopyRunning
        => /\ cxHandler # "returned"
           /\ cxTcp # "closed"
           /\ cxWs # "closed"

\* the handler returned after a splice: both loops done, both ends closed
C30_ReturnedAfterSplice ==
    /\ cxHandler = "returned"
    /\ cxUp = "done" /\ cxDown = "done"
    /\ cxTcp = "closed" /\ cxWs = "closed"

----------------------------------------------------------------------------
(* Console proxy: from the domain XML to the dial target.  A string is a    *)
(* sequence of tokens: each of @ / : [ ] is a token of its own, any other   *)
(* token stands for a run of characters without them.                       *)

\* tokens of a stored host URI after "qemu+ssh://"
MaxUriLen == 5
\* graphics elements of a domain
MaxGraphics == 2

UriTokens == {"kvm1.example", "@", "/", ":", "[", "]"}

RECURSIVE SeqsUpTo(_, _)
SeqsUpTo(S, n) ==
    IF n = 0 THEN {<<>>}
    ELSE LET r == SeqsUpTo(S, n - 1)
         IN  r \cup {Append(q, x) : q \in r, x \in S}

\* strings.Index, strings.LastIndex (1-based, 0 when absent), strings.Contains
IndexOf(q, c) ==
    IF \E j \in 1..Len(q) : q[j] = c
    THEN CHOOSE j \in 1..Len(q) : q[j] = c /\ \A l \in 1..(j - 1) : q[l] # c
    ELSE 0

LastIndexOf(q, c) ==
    IF \E j \in 1..Len(q) : q[j] = c
    THEN CHOOSE j \in 1..Len(q) :
            q[j] = c /\ \A l \in (j + 1)..Len(q) : q[l] # c
    ELSE 0

Contains(q, c) == IndexOf(q, c) # 0

\* q[:n] and q[n:]
Take(q, n) == SubSeq(q, 1, n)
Drop(q, n) == SubSeq(q, n + 1, Len(q))

\* the host of net.SplitHostPort; every error returns the empty string
SplitHostPort(hp) ==
    LET i == LastIndexOf(hp, ":")
    IN  IF i = 0 THEN <<>>
        ELSE IF hp[1] = "["
        THEN LET end == IndexOf(hp, "]")
             IN  IF end = 0 \/ end + 1 # i THEN <<>>
                 ELSE IF Contains(Drop(hp, 1), "[") \/ Contains(Drop(hp, end), "]")
                 THEN <<>>
                 ELSE SubSeq(hp, 2, end - 1)
        ELSE LET host == Take(hp, i - 1)
             IN  IF Contains(host, ":") \/ Contains(hp, "[") \/ Contains(hp, "]")
                 THEN <<>>
                 ELSE host

\* strings.Split(parts[1], "/")[0] of strings.SplitN(uri, "@", 2): what
\* follows the first @ up to the next /
UriHostPart(uri) ==
    LET rest == Drop(uri, IndexOf(uri, "@"))
        sl == IndexOf(rest, "/")
    IN  IF sl = 0 THEN rest ELSE Take(rest, sl - 1)

\* The hypervisor's address from the stored URI: fails without an @; the
\* error of SplitHostPort is dropped.
HostFromURI(uri) ==
    IF ~Contains(uri, "@") THEN [ok |-> FALSE, host |-> <<>>]
    ELSE LET hp == UriHostPart(uri)
         IN  [ok |-> TRUE,
              host |-> IF Contains(hp, ":") THEN SplitHostPort(hp) ELSE hp]

\* strings.ToLower on the type attribute
Lower(t) == IF t = "VNC" THEN "vnc" ELSE IF t = "SPICE" THEN "spice" ELSE t

\* a graphics element: the attributes the handlers read ("" when absent)
Graphics(type, port, tlsPort, listen) ==
    [type |-> type, port |-> port, tlsPort |-> tlsPort, listen |-> listen]

\* the first element of the kind, 0 without one (the loops break there)
FirstOfKind(gs, kind) ==
    IF \E j \in 1..Len(gs) : Lower(gs[j].type) = kind
    THEN CHOOSE j \in 1..Len(gs) :
            /\ Lower(gs[j].type) = kind
            /\ \A l \in 1..(j - 1) : Lower(gs[l].type) # kind
    ELSE 0

\* a SPICE handler that takes the plain port before the TLS port
SelectPort_PlainFirst(kind, gs) ==
    LET j == FirstOfKind(gs, kind)
    IN  IF j = 0 THEN [port |-> "", listen |-> <<>>]
        ELSE [port |-> IF gs[j].port \notin {"", "-1"} THEN gs[j].port
                       ELSE IF kind = "spice" /\ gs[j].tlsPort \notin {"", "-1"}
                       THEN gs[j].tlsPort ELSE "",
              listen |-> gs[j].listen]

\* The loops over def.Graphics and the checks that follow: the port to
\* dial ("" when there is none) and the listen attribute.
SelectPort(kind, gs) ==
    LET j == FirstOfKind(gs, kind)
    IN  IF j = 0 THEN [port |-> "", listen |-> <<>>]
        ELSE [port |->
                IF kind = "spice"
                THEN IF gs[j].tlsPort \notin {"", "-1"} THEN gs[j].tlsPort
                     ELSE IF gs[j].port \notin {"", "-1"} THEN gs[j].port
                     ELSE ""
                ELSE IF gs[j].port = "-1" THEN "" ELSE gs[j].port,
              listen |-> gs[j].listen]

\* listen attributes the handlers replace by the hypervisor's address
LocalListens == {<<>>, <<"127.0.0.1">>, <<"0.0.0.0">>, <<":", ":">>}
Listens == LocalListens \cup {<<"10.0.0.5">>}

NoTarget == [dial |-> FALSE, addr |-> <<>>]
Target(host, port) == [dial |-> TRUE, addr |-> host \o <<":", port>>]

\* The handler from the parsed XML to targetAddr.
ResolveTarget(req) ==
    LET sel == SelectPort(req.kind, req.graphics)
    IN  IF sel.port = "" THEN NoTarget
        ELSE IF sel.listen \in LocalListens
        THEN IF ~req.hostFound \/ ~HostFromURI(req.uri).ok THEN NoTarget
             ELSE Target(HostFromURI(req.uri).host, sel.port)
        ELSE Target(sel.listen, sel.port)

Request(kind, gs, uri, hostFound) ==
    [kind |-> kind, graphics |-> gs, uri |-> uri, hostFound |-> hostFound]

UriPrefix == <<"qemu+ssh", ":", "/", "/">>
ExampleUri == UriPrefix \o <<"root", "@", "kvm1.example", "/", "system">>
ExampleUriV6 ==
    UriPrefix \o <<"root", "@", "[", "fe80", ":", ":", "1", "]", "/", "system">>
Uris ==
    {ExampleUri, ExampleUriV6}
        \cup {UriPrefix \o q : q \in SeqsUpTo(UriTokens, MaxUriLen)}

\* a VNC console on port 5901 with every listen attribute and every URI
UriRequests ==
    {Request("vnc", <<Graphics("vnc", "5901", "", l)>>, u, f) :
        l \in Listens, u \in Uris, f \in BOOLEAN}

GraphicsElements ==
    {Graphics(t, q, tq, <<"10.0.0.5">>) :
        t \in {"vnc", "VNC", "spice"}, q \in {"", "-1", "5901"},
        tq \in {"", "-1", "5902"}}

\* both consoles on every list of graphics elements
PortRequests ==
    {Request(k, gs, ExampleUri, TRUE) :
        k \in {"vnc", "spice"}, gs \in SeqsUpTo(GraphicsElements, MaxGraphics)}

Requests == UriRequests \cup PortRequests

Pending == [done |-> FALSE, dial |-> FALSE, addr |-> <<>>]

\* the requests of the other specifications dial the example's target
ConsoleInit ==
    /\ cxReq = Request("vnc", <<Graphics("vnc", "5901", "", <<"0.0.0.0">>)>>,
                       ExampleUri, TRUE)
    /\ cxTarget = Pending

\* HandleConsole / HandleSpiceConsole from the upgrade to the start of the
\* copy goroutines: the lookups, the target, net.Dial.  Every failure
\* returns, and the deferred wsConn.Close() runs.
ConsoleSetupWith(lookupOk, dialOk) ==
    /\ cxHandler = "upgraded"
    /\ ~cxTarget.done
    /\ LET t == IF lookupOk THEN ResolveTarget(cxReq) ELSE NoTarget
       IN  /\ cxTarget' = [done |-> TRUE, dial |-> t.dial, addr |-> t.addr]
           /\ IF t.dial /\ dialOk
              THEN /\ cxHandler' = "splicing"
                   /\ cxTcp' = "open"
                   /\ cxUp' = "reading"
                   /\ cxDown' = "reading"
                   /\ UNCHANGED cxWs
              ELSE /\ cxHandler' = "returned"
                   /\ cxWs' = DeferredClose(cxWs)
                   /\ UNCHANGED <<cxTcp, cxUp, cxDown>>
    /\ UNCHANGED <<wsIn, tcpIn, cxReq>>
    /\ UNCHANGED <<monVars, recVars, poolVars, hubVars, statsVars, lockVars, mlockVars>>

TargetNext ==
    \E lookupOk \in BOOLEAN, dialOk \in BOOLEAN :
        ConsoleSetupWith(lookupOk, dialOk)

\* the renderings of "the hostname with any port stripped" of a host part
HostnamesOf(hp) ==
    IF hp # <<>> /\ hp[1] = "[" /\ Contains(hp, "]")
    THEN {Take(hp, IndexOf(hp, "]")), SubSeq(hp, 2, IndexOf(hp, "]") - 1)}
    ELSE IF Contains(hp, ":")
    THEN {Take(hp, IndexOf(hp, ":") - 1), Take(hp, LastIndexOf(hp, ":") - 1)}
    ELSE {hp}

\* A host part of the form host, host:port, [v6] or [v6]:port.
Special == {"@", "/", ":", "[", "]"}

WellFormedHostPart(hp) ==
    IF hp # <<>> /\ hp[1] = "["
    THEN LET e == IndexOf(hp, "]")
         IN  /\ e > 2
             /\ \A j \in 2..(e - 1) : hp[j] \notin {"@", "/", "[", "]"}
             /\ \/ e = Len(hp)
                \/ /\ Len(hp) = e + 2
                   /\ hp[e + 1] = ":"
                   /\ hp[e + 2] \notin Special
    ELSE LET c == IndexOf(hp, ":")
             n == IF c = 0 THEN Len(hp) ELSE c - 1
         IN  /\ n > 0
             /\ \A j \in 1..n : hp[j] \notin Special
             /\ c # 0 => (Len(hp) = c + 1 /\ hp[c + 1] \notin Special)

UsablePort(kind, gs) ==
    LET j == FirstOfKind(gs, kind)
    IN  IF j = 0 THEN ""
        ELSE IF kind = "spice" /\ gs[j].tlsPort # "" /\ gs[j].tlsPort # "-1"
        THEN gs[j].tlsPort
        ELSE IF gs[j].port # "" /\ gs[j].port # "-1" THEN gs[j].port
        ELSE ""

\* C23: the proxy dials the usable port; without one it returns with the
\* WebSocket closed and no TCP connection dialed.
C23_PortSelection ==
    cxTarget.done
    => LET q == UsablePort(cxReq.kind, cxReq.graphics)
       IN  /\ cxTarget.dial
              => cxTarget.addr[Len(cxTarget.addr)] = q /\ q # ""
           /\ q = ""
              => /\ ~cxTarget.dial
                 /\ cxHandler = "returned"
                 /\ cxTcp = "none"
                 /\ cxWs = "closed"

\* a SPICE console whose element has both ports was dialed on the TLS port
C23_SpiceDialedTlsPort ==
    /\ cxTarget.done /\ cxTarget.dial
    /\ cxReq.kind = "spice"
    /\ \E j \in 1..Len(cxReq.graphics) :
          /\ j = FirstOfKind(cxReq.graphics, "spice")
          /\ cxReq.graphics[j].port = "5901"
          /\ cxReq.graphics[j].tlsPort = "5902"
    /\ cxTarget.addr = <<"10.0.0.5", ":", "5902">>

----------------------------------------------------------------------------
(* Hosts, reconciler and store *)

\* concurrent request / background tasks
NumTasks == 2
\* changes of the hypervisors' inventories in one behaviour
MaxHvChanges == 3
\* service operations begun in one behaviour
MaxOps == 3
Hosts == {"h1", "h2"}
Names == {"a", "b"}
\* UUIDs the hypervisors assign to domains
DomUUIDs == {"U1", "U2"}
\* UUIDs uuid.New() returns
MintUUIDs == {"M1", "M2"}
Tasks == 1..NumTasks

\* libvirt domain states the model's hypervisors use
DomStates == {"running", "shutoff"}
\* hardware of a domain: none, or one disk, one NIC and a VNC display
HwKinds == {"bare", "full"}
\* the hardware a domain is defined with
HwOf(u) == IF u = "U1" THEN "full" ELSE "bare"

\* mapLibvirtStateToVMState
mapLibvirtStateToVMState(st) ==
    CASE st = "running" -> "ACTIVE"
      [] st = "paused" -> "PAUSED"
      [] st \in {"shutdown", "shutoff", "crashed"} -> "STOPPED"
      [] st = "pmsuspended" -> "SUSPENDED"
      [] OTHER -> "STOPPED"

\* A domain as the driver describes it.  VCPUCount and MemoryBytes are read,
\* compared and written exactly like State and are carried by it.
Domain(n, u, st, k) == [name |-> n, uuid |-> u, state |-> st, hw |-> k]

\* GetDomainHardware: disk path and NIC MAC are per domain UUID (a clone on
\* another host keeps both), the bridge is br0.
HardwareInfoOf(d) ==
    IF d.hw = "full"
    THEN [nil |-> FALSE, disks |-> {[path |-> d.uuid, dev |-> "vda"]},
          nics |-> {[mac |-> d.uuid, bridge |-> "br0"]}]
    ELSE [nil |-> FALSE, disks |-> {}, nics |-> {}]

\* the nil *HardwareInfo a failed GetDomainHardware leaves
NilHardware == [nil |-> TRUE, disks |-> {}, nics |-> {}]

\* parseGraphicsFromXML: the VNC / SPICE flags of the domain.
GraphicsOf(d) == IF d.hw = "full" THEN "vnc" ELSE "none"

\* domainToVMInfo
VMInfoOf(d) ==
    [name |-> d.name, uuid |-> d.uuid, state |-> d.state,
     graphics |-> GraphicsOf(d)]

EmptyDB ==
    [hosts |-> {}, vms |-> {}, volumes |-> {}, volAtt |-> {}, networks |-> {},
     ports |-> {}, bindings |-> {}, gfxDev |-> {}, gfxAtt |-> {}]

IdleTask == [op |-> "idle"]

\* What the history variable keeps of a transaction.
TxRecord(case, matched, changed, hwWrites, same) ==
    [case |-> case, matched |-> matched, changed |-> changed,
     hwWrites |-> hwWrites, same |-> same]

NoTx == TxRecord("none", FALSE, FALSE, 0, TRUE)

NoEvent == [type |-> "none", hostId |-> "none"]

\* what a request returned: the operation, the host and the error
Return(op, h, err) == [op |-> op, h |-> h, err |-> err]

NoReturn == Return("none", "none", "nil")

RecInit ==
    /\ hv = [h \in Hosts |-> {}]
    /\ hvChanges = 0
    /\ opsStarted = 0
    /\ pool = {}
    /\ db = EmptyDB
    /\ task = [p \in Tasks |-> IdleTask]
    /\ lastEvent = NoEvent
    /\ spawned = [h \in Hosts |-> 0]
    /\ lastReturn = NoReturn
    /\ lastTx = NoTx

\* Rows a gorm query sees: gorm.Model gives every table a DeletedAt column,
\* Delete sets it and every query filters on it.
Visible(rows) == {r \in rows : ~r.del}

\* db.Delete on rows of a table with gorm.Model: a soft delete.
SoftDelete(rows, gone) ==
    {IF r \in gone THEN [r EXCEPT !.del = TRUE] ELSE r : r \in rows}

\* the unique indexes without the one on uuid
VMUniqueOK_NameOnly(rows, rec) ==
    \A r \in rows :
        r.id # rec.id => ~(r.host = rec.host /\ r.name = rec.name)

\* the unique indexes without idx_vm_host_name
VMUniqueOK_UUIDOnly(rows, rec) ==
    \A r \in rows : r.id # rec.id => r.uuid # rec.uuid

\* The unique indexes of virtual_machines, idx_vm_host_name on
\* (host_id, name) and the one on uuid; they cover soft-deleted rows too.
VMUniqueOK(rows, rec) ==
    \A r \in rows :
        r.id # rec.id =>
            /\ ~(r.host = rec.host /\ r.name = rec.name)
            /\ r.uuid # rec.uuid

\* The id a new virtual_machines row gets (rows are never removed).
NextVmId(rows) == Cardinality(rows) + 1

\* ---- the hypervisors (environment) ----

\* a reconcile_host of host h that is running is no longer undisturbed
Disturbed(t) == IF t.op = "syncHost" THEN [t EXCEPT !.clean = FALSE] ELSE t

HvDisturb(h) ==
    [q \in Tasks |->
        IF task[q].op = "syncHost" /\ task[q].h = h
        THEN Disturbed(task[q]) ELSE task[q]]

HvChange(h, doms) ==
    /\ hvChanges < MaxHvChanges
    /\ hvChanges' = hvChanges + 1
    /\ hv' = [hv EXCEPT ![h] = doms]
    /\ task' = HvDisturb(h)
    /\ UNCHANGED <<opsStarted, pool, db, lastEvent, lastTx>>
    /\ UNCHANGED <<spawned, lastReturn>>
    /\ UNCHANGED notRec

\* virsh define: a new domain, shut off
HvDefine(h, n, u) ==
    /\ \A d \in hv[h] : d.name # n /\ d.uuid # u
    /\ HvChange(h, hv[h] \cup {Domain(n, u, "shutoff", HwOf(u))})

\* virsh undefine / destroy
HvUndefine(h, n) ==
    \E d \in hv[h] :
        /\ d.name = n
        /\ HvChange(h, hv[h] \ {d})

\* virsh domrename
HvRename(h, n, n2) ==
    \E d \in hv[h] :
        /\ d.name = n
        /\ \A e \in hv[h] : e.name # n2
        /\ HvChange(h, (hv[h] \ {d}) \cup {[d EXCEPT !.name = n2]})

\* the domain starts or stops outside the server
HvSetState(h, n, st) ==
    \E d \in hv[h] :
        /\ d.name = n
        /\ d.state # st
        /\ HvChange(h, (hv[h] \ {d}) \cup {[d EXCEPT !.state = st]})

\* ---- the store operations of the reconciler ----

\* The first row of a query's result (ORDER BY id LIMIT 1).
FirstRow(rows) == CHOOSE r \in rows : \A q \in rows : r.id <= q.id

\* syncSingleVM, case 1, with uuid.New() called whether or not another
\* host holds the domain UUID
CreateVM_MintAlways(d, hostID, vmInfo, minted) ==
    LET newVMRecord ==
            [id |-> NextVmId(d.vms), host |-> hostID, name |-> vmInfo.name,
             uuid |-> minted, duuid |-> vmInfo.uuid,
             state |-> mapLibvirtStateToVMState(vmInfo.state), del |-> FALSE]
    IN  IF VMUniqueOK(d.vms, newVMRecord)
        THEN [ok |-> TRUE, vms |-> d.vms \cup {newVMRecord},
              row |-> newVMRecord, changed |-> TRUE, case |-> "insert"]
        ELSE [ok |-> FALSE, vms |-> d.vms, row |-> newVMRecord,
              changed |-> FALSE, case |-> "refused"]

\* syncSingleVM, case 1: no row for (host_id, domain_uuid).  The conflict
\* query, the choice of the internal UUID and tx.Create.
CreateVM(d, hostID, vmInfo, minted) ==
    LET conflicting == {r \in Visible(d.vms) :
                            r.duuid = vmInfo.uuid /\ r.host # hostID}
        newVMRecord ==
            [id |-> NextVmId(d.vms), host |-> hostID, name |-> vmInfo.name,
             uuid |-> IF conflicting = {} THEN vmInfo.uuid ELSE minted,
             duuid |-> vmInfo.uuid,
             state |-> mapLibvirtStateToVMState(vmInfo.state), del |-> FALSE]
    IN  IF VMUniqueOK(d.vms, newVMRecord)
        THEN [ok |-> TRUE, vms |-> d.vms \cup {newVMRecord},
              row |-> newVMRecord, changed |-> TRUE, case |-> "insert"]
        ELSE [ok |-> FALSE, vms |-> d.vms, row |-> newVMRecord,
              changed |-> FALSE, case |-> "refused"]

\* syncSingleVM, case 2: the row exists; update it when a column differs.
UpdateVM(d, existing, vmInfo) ==
    LET updated == [existing EXCEPT
                        !.name = vmInfo.name,
                        !.state = mapLibvirtStateToVMState(vmInfo.state)]
    IN  IF updated = existing
        THEN [ok |-> TRUE, vms |-> d.vms, row |-> existing,
              changed |-> FALSE, case |-> "unchanged"]
        ELSE IF VMUniqueOK(d.vms, updated)
        THEN [ok |-> TRUE, vms |-> (d.vms \ {existing}) \cup {updated},
              row |-> updated, changed |-> TRUE, case |-> "update"]
        ELSE [ok |-> FALSE, vms |-> d.vms, row |-> existing,
              changed |-> FALSE, case |-> "refused"]

\* syncVMHardware without the clearing of the VM's port bindings
syncVMHardware_KeepBindings(d, vmID, hostID, hardware, graphics) ==
    [d EXCEPT
        !.bindings = @ \cup
            {[mac |-> n.mac, host |-> hostID, bridge |-> n.bridge] :
                n \in hardware.nics},
        !.volAtt = {a \in @ : a.vm # vmID} \cup
            {[vm |-> vmID, vol |-> k.path, dev |-> k.dev] :
                k \in hardware.disks},
        !.gfxAtt = {a \in @ : a.vm # vmID} \cup
            (IF graphics = "none" THEN {}
             ELSE {[vm |-> vmID, dev |-> graphics]}),
        !.volumes = @ \cup {k.path : k \in hardware.disks},
        !.networks = @ \cup
            {[host |-> hostID, bridge |-> n.bridge] : n \in hardware.nics},
        !.ports = {q \in @ : q.mac \notin {n.mac : n \in hardware.nics}} \cup
            {[mac |-> n.mac, vm |-> vmID] : n \in hardware.nics},
        !.gfxDev = @ \cup (IF graphics = "none" THEN {} ELSE {graphics})]

\* syncVMHardware: the tables after the hardware sync of one VM.  The rows
\* of the attachment tables are soft-deleted and created anew; no index and
\* no query sees the soft-deleted ones, so the model drops them.
syncVMHardware(d, vmID, hostID, hardware, graphics) ==
    LET macsOfVm == {q.mac : q \in {q \in d.ports : q.vm = vmID}}
        newMacs == {n.mac : n \in hardware.nics}
    IN  [d EXCEPT
            !.bindings = {b \in @ : b.mac \notin macsOfVm} \cup
                {[mac |-> n.mac, host |-> hostID, bridge |-> n.bridge] :
                    n \in hardware.nics},
            !.volAtt = {a \in @ : a.vm # vmID} \cup
                {[vm |-> vmID, vol |-> k.path, dev |-> k.dev] :
                    k \in hardware.disks},
            !.gfxAtt = {a \in @ : a.vm # vmID} \cup
                (IF graphics = "none" THEN {}
                 ELSE {[vm |-> vmID, dev |-> graphics]}),
            !.volumes = @ \cup {k.path : k \in hardware.disks},
            !.networks = @ \cup
                {[host |-> hostID, bridge |-> n.bridge] : n \in hardware.nics},
            !.ports = {q \in @ : q.mac \notin newMacs} \cup
                {[mac |-> n.mac, vm |-> vmID] : n \in hardware.nics},
            !.gfxDev = @ \cup (IF graphics = "none" THEN {} ELSE {graphics})]

\* The number of rows syncVMHardware deletes, inserts or updates.
HwMutations(d, vmID, hostID, hardware, graphics) ==
    LET macsOfVm == {q.mac : q \in {q \in d.ports : q.vm = vmID}}
    IN  Cardinality({b \in d.bindings : b.mac \in macsOfVm})
        + Cardinality({a \in d.volAtt : a.vm = vmID})
        + Cardinality({a \in d.gfxAtt : a.vm = vmID})
        + Cardinality({k.path : k \in hardware.disks} \ d.volumes)
        + Cardinality(hardware.disks)
        + Cardinality({[host |-> hostID, bridge |-> n.bridge] :
                          n \in hardware.nics} \ d.networks)
        + Cardinality(hardware.nics)
        + Cardinality({[mac |-> n.mac, host |-> hostID, bridge |-> n.bridge] :
                          n \in hardware.nics}
                      \ {b \in d.bindings : b.mac \notin macsOfVm})
        + (IF graphics = "none" THEN 0
           ELSE 1 + (IF graphics \in d.gfxDev THEN 0 ELSE 1))

\* The transaction of syncSingleVM.  hardware is nil when GetDomainHardware
\* failed.  A refused statement rolls the whole transaction back.
SyncTxResult(d, hostID, vmInfo, hardware, minted) ==
    LET existing == {r \in Visible(d.vms) :
                        r.host = hostID /\ r.duuid = vmInfo.uuid}
        vm == IF existing = {}
              THEN CreateVM(d, hostID, vmInfo, minted)
              ELSE UpdateVM(d, FirstRow(existing), vmInfo)
        d1 == [d EXCEPT !.vms = vm.vms]
    IN  IF ~vm.ok
        THEN [ok |-> FALSE, db |-> d, changed |-> FALSE, case |-> vm.case,
              hwWrites |-> 0]
        ELSE IF hardware.nil
        THEN [ok |-> TRUE, db |-> d1, changed |-> vm.changed,
              case |-> vm.case, hwWrites |-> 0]
        ELSE [ok |-> TRUE,
              db |-> syncVMHardware(d1, vm.row.id, hostID, hardware,
                                    vmInfo.graphics),
              changed |-> vm.changed, case |-> vm.case,
              hwWrites |-> HwMutations(d1, vm.row.id, hostID, hardware,
                                       vmInfo.graphics)]

\* ---- the operations of the host service ----

\* The tasks after task p took a step: p has its new locals, and a
\* reconcile_host another task is running no longer runs alone.
Step(p, new) == [q \in Tasks |-> IF q = p THEN new ELSE Disturbed(task[q])]

\* a request or a background call begins
Begin ==
    /\ opsStarted < MaxOps
    /\ opsStarted' = opsStarted + 1

\* the messages the service broadcasts
HostsChanged == [type |-> "hosts-changed", hostId |-> "none"]
VMsChanged(h) == [type |-> "vms-changed", hostId |-> h]

\* hub.BroadcastMessage of one message
Publish(e) == lastEvent' = e

\* a caller that broadcasts whatever the reconcile reported
PublishAlways(c, e) == Publish(e)

\* the callers of the reconciler: if changed { broadcastVMsChanged }
PublishIf(c, e) == IF c THEN Publish(e) ELSE UNCHANGED lastEvent

\* The error AddHost returns after connector.AddHost
ConnectError(h, dialOk) == IF h \notin pool /\ dialOk THEN "nil" ELSE "connect"

\* AddHost, first half: db.Create(&host).  A second row with the same
\* primary key is refused and the call returns the error.
AddHostPersistStep(p, h) ==
    /\ task[p] = IdleTask
    /\ Begin
    /\ IF h \in db.hosts
       THEN UNCHANGED <<db, task>>
       ELSE /\ db' = [db EXCEPT !.hosts = @ \cup {h}]
            /\ task' = Step(p, [op |-> "addHost", pc |-> "connect", h |-> h])
    /\ UNCHANGED <<hv, hvChanges, pool, lastEvent, lastTx>>
    /\ UNCHANGED notRec

\* AddHost, second half: connector.AddHost; then either the rollback of
\* the row (which the store may refuse: the failure is logged) and the
\* error, or the hosts-changed broadcast.
AddHostConnectStep(p, dialOk, dbFault) ==
    /\ task[p].op = "addHost"
    /\ LET h == task[p].h
       IN  IF ConnectError(h, dialOk) = "nil"
           THEN /\ pool' = pool \cup {h}
                /\ Publish(HostsChanged)
                /\ db' = db
           ELSE /\ db' = IF dbFault THEN db
                         ELSE [db EXCEPT !.hosts = @ \ {h}]
                /\ UNCHANGED <<pool, lastEvent>>
    /\ task' = Step(p, IdleTask)
    /\ UNCHANGED <<hv, hvChanges, opsStarted, lastTx>>
    /\ UNCHANGED notRec

\* RemoveHost, first half: connector.RemoveHost.  The pool entry stays
\* when the host is not pooled or Disconnect fails; the error is logged.
RemoveHostDisconnect(p, h) ==
    /\ task[p] = IdleTask
    /\ Begin
    /\ \E disconnectOk \in BOOLEAN :
        pool' = IF disconnectOk THEN pool \ {h} ELSE pool
    /\ task' = Step(p, [op |-> "removeHost", pc |-> "delete", h |-> h])
    /\ UNCHANGED <<hv, hvChanges, db, lastEvent, spawned, lastReturn, lastTx>>
    /\ UNCHANGED notRec

\* RemoveHost, second half: delete the host's VM rows (a failure is
\* logged), delete the host row (a failure is returned), broadcast
\* hosts-changed.
RemoveHostDeleteStep(p, vmFault, hostFault) ==
    /\ task[p].op = "removeHost"
    /\ LET h == task[p].h
           d1 == IF vmFault THEN db
                 ELSE [db EXCEPT !.vms =
                          SoftDelete(@, {r \in Visible(@) : r.host = h})]
       IN  IF hostFault
           THEN /\ db' = d1
                /\ UNCHANGED lastEvent
           ELSE /\ db' = [d1 EXCEPT !.hosts = @ \ {h}]
                /\ Publish(HostsChanged)
    /\ task' = Step(p, IdleTask)
    /\ UNCHANGED <<hv, hvChanges, opsStarted, pool, lastTx>>
    /\ UNCHANGED notRec

\* The host operations, leaving out what they return and spawn.
AddHostPersist(p, h) ==
    AddHostPersistStep(p, h) /\ UNCHANGED <<spawned, lastReturn>>

AddHostConnect(p) ==
    \E dialOk \in BOOLEAN, dbFault \in BOOLEAN :
        AddHostConnectStep(p, dialOk, dbFault) /\ UNCHANGED <<spawned, lastReturn>>

RemoveHostDeleteWith(p, vmFault, hostFault) ==
    RemoveHostDeleteStep(p, vmFault, hostFault)
    /\ UNCHANGED <<spawned, lastReturn>>

RemoveHostDelete(p) ==
    \E vmFault \in BOOLEAN, hostFault \in BOOLEAN :
        RemoveHostDeleteWith(p, vmFault, hostFault)

\* GetDomainInfo and GetDomainHardware for the domain named n of host h.
\* The first fails when the host is not pooled, an RPC fails, or no domain
\* has the name; when only the second fails the hardware is nil.
DriverFetch(h, n, rpcFault, hwFault) ==
    IF h \notin pool \/ rpcFault \/ ~(\E d \in hv[h] : d.name = n)
    THEN [ok |-> FALSE]
    ELSE LET d == CHOOSE d \in hv[h] : d.name = n
         IN  [ok |-> TRUE, info |-> VMInfoOf(d),
              hw |-> IF hwFault THEN NilHardware ELSE HardwareInfoOf(d)]

\* syncSingleVM when GetDomainInfo failed: delete the row of that name.
PruneByName(d, h, n) ==
    LET rows == {r \in Visible(d.vms) : r.host = h /\ r.name = n}
    IN  IF rows = {} THEN d
        ELSE [d EXCEPT !.vms = SoftDelete(@, {FirstRow(rows)})]

\* syncAndListVMs, the final loop: delete the host's rows whose domain
\* UUID was not listed.
PruneNotListed(d, h, live) ==
    [d EXCEPT !.vms =
        SoftDelete(@, {r \in Visible(@) : r.host = h /\ r.duuid \notin live})]

\* The names and the UUIDs of a set of domains.
NamesOf(doms) == {d.name : d \in doms}
UUIDsOf(doms) == {d.uuid : d \in doms}

\* Whether the cache already holds the domain as the driver describes it:
\* the row's columns and the VM's attachment rows.
Matches(d, h, vmInfo, hardware) ==
    /\ ~hardware.nil
    /\ \E r \in Visible(d.vms) :
        /\ r.host = h /\ r.duuid = vmInfo.uuid /\ r.name = vmInfo.name
        /\ r.state = mapLibvirtStateToVMState(vmInfo.state)
        /\ {[vol |-> a.vol, dev |-> a.dev] : a \in {a \in d.volAtt : a.vm = r.id}}
            = {[vol |-> k.path, dev |-> k.dev] : k \in hardware.disks}
        /\ {q.mac : q \in {q \in d.ports : q.vm = r.id}}
            = {n.mac : n \in hardware.nics}
        /\ {b \in d.bindings : b.mac \in {n.mac : n \in hardware.nics}}
            = {[mac |-> n.mac, host |-> h, bridge |-> n.bridge] :
                  n \in hardware.nics}
        /\ {a.dev : a \in {a \in d.gfxAtt : a.vm = r.id}}
            = (IF vmInfo.graphics = "none" THEN {} ELSE {vmInfo.graphics})

\* The values uuid.New() can return: one no row uses.  The transaction
\* calls it only on a conflict.
MintChoices(d, h, vmInfo) ==
    IF \E r \in Visible(d.vms) : r.duuid = vmInfo.uuid /\ r.host # h
    THEN MintUUIDs \ {r.uuid : r \in d.vms}
    ELSE {"unused"}

\* syncSingleVM up to its transaction, for the domain named n of host h:
\* the two driver calls; when GetDomainInfo failed, the pruning of the row
\* of that name and the caller's broadcast, and the call ends here.
SyncSingleFetch(p, h, n, rpcFault, hwFault, dbFault) ==
    /\ LET f == DriverFetch(h, n, rpcFault, hwFault)
           d1 == IF dbFault THEN db ELSE PruneByName(db, h, n)
       IN  IF f.ok
           THEN /\ task' = Step(p, [op |-> "syncOne", pc |-> "tx", h |-> h,
                                    n |-> n, info |-> f.info, hw |-> f.hw])
                /\ UNCHANGED <<db, lastEvent>>
           ELSE /\ db' = d1
                /\ PublishIf(d1 # db, VMsChanged(h))
                /\ task' = Step(p, IdleTask)
    /\ UNCHANGED <<hvChanges, pool, lastTx, spawned>>
    /\ UNCHANGED notRec

\* vm_hardware (GetVMHardwareAndTriggerSync) begins: the first part of its
\* syncSingleVM.
SyncOneFetchWith(p, h, n, rpcFault, hwFault, dbFault) ==
    /\ task[p] = IdleTask
    /\ Begin
    /\ SyncSingleFetch(p, h, n, rpcFault, hwFault, dbFault)
    /\ UNCHANGED <<hv, lastReturn>>

SyncOneFetch(p, h, n) ==
    \E rpcFault \in BOOLEAN, hwFault \in BOOLEAN, dbFault \in BOOLEAN :
        SyncOneFetchWith(p, h, n, rpcFault, hwFault, dbFault)

\* The listing of syncAndListVMs: the domains whose info could be read.
\* A failure ends the call.
ListDomains(p, h) ==
    /\ task[p] = IdleTask
    /\ \E rpcFault \in BOOLEAN :
        IF h \notin pool \/ rpcFault
        THEN UNCHANGED task
        ELSE \E listed \in SUBSET hv[h] :
                task' = Step(p, [op |-> "syncHost", pc |-> "loop", h |-> h,
                                 todo |-> NamesOf(listed),
                                 live |-> UUIDsOf(listed),
                                 changed |-> FALSE,
                                 clean |-> listed = hv[h]])
    /\ UNCHANGED <<hv, hvChanges, pool, db, lastEvent, lastTx>>
    /\ UNCHANGED lastReturn
    /\ UNCHANGED notRec

\* SyncVMsForHost begun for a list_vms request
ReconcileList(p, h) ==
    /\ Begin
    /\ ListDomains(p, h)
    /\ UNCHANGED spawned

\* a SyncVMsForHost goroutine that AddHost or ConnectToAllHosts spawned
\* begins
BackgroundReconcile(p, h) ==
    /\ spawned[h] > 0
    /\ spawned' = [spawned EXCEPT ![h] = @ - 1]
    /\ ListDomains(p, h)
    /\ UNCHANGED opsStarted

\* syncAndListVMs, the driver calls of the syncSingleVM of one listed domain
SyncHostFetch(p) ==
    /\ task[p].op = "syncHost" /\ task[p].pc = "loop"
    /\ \E n \in task[p].todo, rpcFault \in BOOLEAN, hwFault \in BOOLEAN,
          dbFault \in BOOLEAN :
        LET t == task[p]
            f == DriverFetch(t.h, n, rpcFault, hwFault)
            d1 == IF dbFault THEN db ELSE PruneByName(db, t.h, n)
        IN  IF f.ok
            THEN /\ task' = Step(p, [op |-> "syncHost", pc |-> "tx",
                                     h |-> t.h, todo |-> t.todo \ {n},
                                     live |-> t.live, changed |-> t.changed,
                                     clean |-> t.clean /\ ~hwFault,
                                     n |-> n, info |-> f.info, hw |-> f.hw])
                 /\ db' = db
            ELSE /\ db' = d1
                 /\ task' = Step(p, [t EXCEPT !.todo = @ \ {n},
                                              !.changed = @ \/ d1 # db,
                                              !.clean = FALSE])
    /\ UNCHANGED <<hv, hvChanges, opsStarted, pool, lastEvent, lastTx>>
    /\ UNCHANGED <<spawned, lastReturn>>
    /\ UNCHANGED notRec

\* syncSingleVM, the transaction
SyncTxWith(p, dbFault) ==
    /\ task[p].op \in {"syncOne", "syncHost"} /\ task[p].pc = "tx"
    /\ \E minted \in MintChoices(db, task[p].h, task[p].info) :
        LET t == task[p]
            res == SyncTxResult(db, t.h, t.info, t.hw, minted)
            ok == res.ok /\ ~dbFault
            changed == ok /\ res.changed
            matched == ok /\ Matches(db, t.h, t.info, t.hw)
        IN  /\ db' = IF ok THEN res.db ELSE db
            /\ lastTx' =
                IF matched
                THEN TxRecord(res.case, TRUE, res.changed, res.hwWrites,
                              res.db = db)
                ELSE TxRecord(IF dbFault THEN "storeFail" ELSE res.case,
                              FALSE, FALSE, 0, TRUE)
            /\ IF t.op = "syncOne"
               THEN /\ task' = Step(p, IdleTask)
                    /\ PublishIf(changed, VMsChanged(t.h))
               ELSE /\ task' = Step(p, [op |-> "syncHost", pc |-> "loop",
                                        h |-> t.h, todo |-> t.todo,
                                        live |-> t.live,
                                        changed |-> t.changed \/ changed,
                                        clean |-> t.clean /\ ~dbFault])
                    /\ UNCHANGED lastEvent
    /\ UNCHANGED <<hv, hvChanges, opsStarted, pool>>
    /\ UNCHANGED <<spawned, lastReturn>>
    /\ UNCHANGED notRec

SyncTx(p) == \E dbFault \in BOOLEAN : SyncTxWith(p, dbFault)

\* syncAndListVMs, the pruning, and the broadcast of SyncVMsForHost.  When
\* the query fails nothing is pruned and nothing is broadcast.
ReconcilePruneWith(p, dbFault) ==
    /\ task[p].op = "syncHost" /\ task[p].pc = "loop"
    /\ task[p].todo = {}
    /\ LET t == task[p]
           d1 == IF dbFault THEN db ELSE PruneNotListed(db, t.h, t.live)
       IN  /\ db' = d1
           /\ PublishIf(~dbFault /\ (t.changed \/ d1 # db), VMsChanged(t.h))
    /\ task' = Step(p, IdleTask)
    /\ UNCHANGED <<hv, hvChanges, opsStarted, pool, lastTx>>
    /\ UNCHANGED <<spawned, lastReturn>>
    /\ UNCHANGED notRec

ReconcilePrune(p) == \E dbFault \in BOOLEAN : ReconcilePruneWith(p, dbFault)

\* what the hypervisors do
HvNext ==
    \/ \E h \in Hosts, n \in Names, u \in DomUUIDs : HvDefine(h, n, u)
    \/ \E h \in Hosts, n \in Names : HvUndefine(h, n)
    \/ \E h \in Hosts, n \in Names, n2 \in Names : HvRename(h, n, n2)
    \/ \E h \in Hosts, n \in Names, st \in DomStates : HvSetState(h, n, st)

\* what the tasks ts of the server do
ServiceNext(ts) ==
    \/ \E p \in ts, h \in Hosts : AddHostPersist(p, h)
    \/ \E p \in ts : AddHostConnect(p)
    \/ \E p \in ts, h \in Hosts : RemoveHostDisconnect(p, h)
    \/ \E p \in ts : RemoveHostDelete(p)
    \/ \E p \in ts, h \in Hosts, n \in Names : SyncOneFetch(p, h, n)
    \/ \E p \in ts, h \in Hosts : ReconcileList(p, h)
    \/ \E p \in ts : SyncHostFetch(p)
    \/ \E p \in ts : SyncTx(p)
    \/ \E p \in ts : ReconcilePrune(p)

\* one operation at a time, from an empty store
RecNext == HvNext \/ ServiceNext({1})

\* The server restarted on a store that holds both hosts, and
\* ConnectToAllHosts connected them; each host runs a clone of the same
\* domain, under its own name.
RestartedInit ==
    /\ hv = [h \in Hosts |->
                {Domain(IF h = "h1" THEN "a" ELSE "b", "U1", "running",
                        HwOf("U1"))}]
    /\ hvChanges = 0
    /\ opsStarted = 0
    /\ pool = Hosts
    /\ db = [EmptyDB EXCEPT !.hosts = Hosts]
    /\ task = [p \in Tasks |-> IdleTask]
    /\ lastEvent = NoEvent
    /\ spawned = [h \in Hosts |-> 0]
    /\ lastReturn = NoReturn
    /\ lastTx = NoTx

\* operations running concurrently, on inventories that stay as they are
ConcNext == ServiceNext(Tasks)

----------------------------------------------------------------------------
(* Host operations and lifecycle verbs, with what they return and spawn *)

\* add_host, first half, and what it returns when the store refuses the row
HostAddPersist(p, h) ==
    /\ AddHostPersistStep(p, h)
    /\ lastReturn' = IF h \in db.hosts THEN Return("addHost", h, "persist")
                     ELSE lastReturn
    /\ UNCHANGED spawned

\* add_host, second half: on success the SyncVMsForHost goroutine is
\* spawned and nil returned, on failure the connector's error is returned
HostAddConnectWith(p, dialOk, dbFault) ==
    /\ AddHostConnectStep(p, dialOk, dbFault)
    /\ LET h == task[p].h
           err == ConnectError(h, dialOk)
       IN  /\ lastReturn' = Return("addHost", h, err)
           /\ spawned' = IF err = "nil" THEN [spawned EXCEPT ![h] = @ + 1]
                         ELSE spawned

HostAddConnect(p) ==
    \E dialOk \in BOOLEAN, dbFault \in BOOLEAN :
        HostAddConnectWith(p, dialOk, dbFault)

\* remove_host, second half, and what it returns
HostRemoveDeleteWith(p, vmFault, hostFault) ==
    /\ RemoveHostDeleteStep(p, vmFault, hostFault)
    /\ lastReturn' = Return("removeHost", task[p].h,
                            IF hostFault THEN "delete" ELSE "nil")
    /\ UNCHANGED spawned

HostRemoveDelete(p) ==
    \E vmFault \in BOOLEAN, hostFault \in BOOLEAN :
        HostRemoveDeleteWith(p, vmFault, hostFault)

\* StartVM, ShutdownVM, RebootVM, ForceOffVM, ForceResetVM
Verbs == {"start", "shutdown", "reboot", "forceoff", "forcereset"}

\* the state the hypervisor brings the domain to
VerbTarget(verb) ==
    IF verb \in {"shutdown", "forceoff"} THEN "shutoff" ELSE "running"

\* Connector.StartDomain and its four siblings: getDomainByName, then the
\* RPC.  They fail when the host is not pooled, no domain has the name, or
\* the RPC fails.
DriverVerbFails(h, n, rpcFault) ==
    h \notin pool \/ ~(\E d \in hv[h] : d.name = n) \/ rpcFault

\* A lifecycle verb, the driver call.  On failure the error is returned at
\* once.  On success the hypervisor has begun to act: the domain is in its
\* old state or already in the verb's target state, and the call goes on
\* to syncSingleVM.
LifecycleVerbWith(p, h, n, verb, rpcFault) ==
    /\ task[p] = IdleTask
    /\ Begin
    /\ IF DriverVerbFails(h, n, rpcFault)
       THEN /\ lastReturn' = Return(verb, h, "driver")
            /\ UNCHANGED <<hv, task>>
       ELSE /\ LET d == CHOOSE d \in hv[h] : d.name = n
               IN  \E st \in {d.state, VerbTarget(verb)} :
                      hv' = [hv EXCEPT ![h] =
                                (@ \ {d}) \cup {[d EXCEPT !.state = st]}]
            /\ task' = Step(p, [op |-> "lifecycle", pc |-> "fetch",
                                h |-> h, n |-> n, verb |-> verb])
            /\ UNCHANGED lastReturn
    /\ UNCHANGED <<hvChanges, pool, db, lastEvent, spawned, lastTx>>
    /\ UNCHANGED notRec

LifecycleVerb(p, h, n, verb) ==
    \E rpcFault \in BOOLEAN : LifecycleVerbWith(p, h, n, verb, rpcFault)

\* A lifecycle verb, the first part of its syncSingleVM.  Whatever the
\* reconcile does from here on, the verb returns nil.
LifecycleFetchWith(p, rpcFault, hwFault, dbFault) ==
    /\ task[p].op = "lifecycle"
    /\ SyncSingleFetch(p, task[p].h, task[p].n, rpcFault, hwFault, dbFault)
    /\ lastReturn' = Return(task[p].verb, task[p].h, "nil")
    /\ UNCHANGED <<hv, opsStarted>>

LifecycleFetch(p) ==
    \E rpcFault \in BOOLEAN, hwFault \in BOOLEAN, dbFault \in BOOLEAN :
        LifecycleFetchWith(p, rpcFault, hwFault, dbFault)

\* The server starts on an empty store; host h1 runs domain a, host h2 has
\* domain b shut off.
HostInit ==
    /\ hv = [h \in Hosts |->
                {IF h = "h1" THEN Domain("a", "U1", "running", HwOf("U1"))
                 ELSE Domain("b", "U2", "shutoff", HwOf("U2"))}]
    /\ hvChanges = 0
    /\ opsStarted = 0
    /\ pool = {}
    /\ db = EmptyDB
    /\ task = [p \in Tasks |-> IdleTask]
    /\ lastEvent = NoEvent
    /\ spawned = [h \in Hosts |-> 0]
    /\ lastReturn = NoReturn
    /\ lastTx = NoTx

\* host operations, their background reconciles, and lifecycle verbs
HostNext ==
    \/ \E p \in {1}, h \in Hosts : HostAddPersist(p, h)
    \/ \E p \in {1} : HostAddConnect(p)
    \/ \E p \in {1}, h \in Hosts : RemoveHostDisconnect(p, h)
    \/ \E p \in {1} : HostRemoveDelete(p)
    \/ \E p \in {1}, h \in Hosts : BackgroundReconcile(p, h)
    \/ \E p \in {1} : SyncHostFetch(p)
    \/ \E p \in {1} : SyncTx(p)
    \/ \E p \in {1} : ReconcilePrune(p)
    \/ \E p \in {1}, h \in Hosts, n \in Names, verb \in Verbs :
          LifecycleVerb(p, h, n, verb)
    \/ \E p \in {1} : LifecycleFetch(p)

----------------------------------------------------------------------------
(* The connection pool in detail: handles, dials and return values *)

\* network dials in one behaviour
MaxDials == 3

\* no entry in Connector.connections
NoHandle == 0

\* the URI schemes a host can be added with
Schemes == {"qemu+ssh", "qemu+tcp", "qemu", "qemu+unix", "vbox", "invalid"}

PoolReturn(op, h, err) == [op |-> op, h |-> h, err |-> err]

PoolInit ==
    /\ connections = [h \in Hosts |-> NoHandle]
    /\ dials = 0
    /\ poolRet = PoolReturn("none", "none", "nil")

\* dialLibvirt: "invalid" is a URI url.Parse rejects; a scheme outside the
\* switch is refused without a dial; the others dial, and netOk says
\* whether the dial succeeds.
dialLibvirt(scheme, netOk) ==
    IF scheme = "invalid" THEN [err |-> "invalid URI", dialed |-> FALSE]
    ELSE IF scheme \notin {"qemu+ssh", "qemu+tcp", "qemu", "qemu+unix"}
    THEN [err |-> "unsupported scheme", dialed |-> FALSE]
    ELSE IF netOk THEN [err |-> "nil", dialed |-> TRUE]
    ELSE [err |-> "dial failed", dialed |-> TRUE]

\* a pool add that stores the handle as soon as the dial succeeded and
\* dials whether or not the id has an entry
PoolAdd_StoreFirst(conns, n, h, scheme, netOk, rpcOk) ==
    LET d == dialLibvirt(scheme, netOk)
        n1 == IF d.dialed THEN n + 1 ELSE n
    IN  IF d.err # "nil"
        THEN [conns |-> conns, dials |-> n1, err |-> d.err]
        ELSE [conns |-> [conns EXCEPT ![h] = n1], dials |-> n1,
              err |-> IF conns[h] # NoHandle THEN "already connected"
                      ELSE IF rpcOk THEN "nil" ELSE "connect failed"]

\* Connector.AddHost on the map conns, n dials made before: the map, the
\* dial count and the error afterwards.  rpcOk says whether l.Connect()
\* succeeds.
PoolAdd(conns, n, h, scheme, netOk, rpcOk) ==
    IF conns[h] # NoHandle
    THEN [conns |-> conns, dials |-> n, err |-> "already connected"]
    ELSE LET d == dialLibvirt(scheme, netOk)
             n1 == IF d.dialed THEN n + 1 ELSE n
         IN  IF d.err # "nil"
             THEN [conns |-> conns, dials |-> n1, err |-> d.err]
             ELSE IF ~rpcOk
             THEN [conns |-> conns, dials |-> n1, err |-> "connect failed"]
             ELSE [conns |-> [conns EXCEPT ![h] = n1], dials |-> n1,
                   err |-> "nil"]

\* Connector.AddHost
ConnAddHost(h, scheme, netOk, rpcOk) ==
    /\ dials < MaxDials
    /\ LET r == PoolAdd(connections, dials, h, scheme, netOk, rpcOk)
       IN  /\ connections' = r.conns
           /\ dials' = r.dials
           /\ poolRet' = PoolReturn("add", h, r.err)
    /\ UNCHANGED notPool

\* Connector.RemoveHost
ConnRemoveHost(h, disconnectOk) ==
    /\ IF connections[h] = NoHandle
       THEN /\ poolRet' = PoolReturn("remove", h, "not found")
            /\ UNCHANGED connections
       ELSE IF ~disconnectOk
       THEN /\ poolRet' = PoolReturn("remove", h, "disconnect failed")
            /\ UNCHANGED connections
       ELSE /\ poolRet' = PoolReturn("remove", h, "nil")
            /\ connections' = [connections EXCEPT ![h] = NoHandle]
    /\ UNCHANGED dials
    /\ UNCHANGED notPool

\* Connector.GetConnection
ConnGetConnection(h) ==
    /\ poolRet' = PoolReturn("get", h,
                     IF connections[h] = NoHandle THEN "not connected"
                     ELSE "nil")
    /\ UNCHANGED <<connections, dials>>
    /\ UNCHANGED notPool

PoolNext ==
    \/ \E h \in Hosts, scheme \in Schemes, netOk \in BOOLEAN,
          rpcOk \in BOOLEAN : ConnAddHost(h, scheme, netOk, rpcOk)
    \/ \E h \in Hosts, disconnectOk \in BOOLEAN :
          ConnRemoveHost(h, disconnectOk)
    \/ \E h \in Hosts : ConnGetConnection(h)

\* C12: a pool add that fails leaves the map as it was, and one that
\* fails because the id has an entry does not dial.
C12_FailedAddKeepsPool ==
    [][\A h \in Hosts, scheme \in Schemes, netOk \in BOOLEAN,
          rpcOk \in BOOLEAN :
        (ConnAddHost(h, scheme, netOk, rpcOk) /\ poolRet'.err # "nil")
        => /\ connections' = connections
           /\ poolRet'.err = "already connected" <=> connections[h] # NoHandle
           /\ connections[h] # NoHandle => dials' = dials]_vars

\* an add was refused because the id has an entry, and the entry is the
\* handle of an earlier add that followed a failed one
C12_AddRefused ==
    /\ poolRet.op = "add" /\ poolRet.err = "already connected"
    /\ connections[poolRet.h] > 1

----------------------------------------------------------------------------
(* The pool's lock: Connector.mu around the calls of the driver *)

NoCall == [pc |-> "idle", h |-> "none"]

LockInit ==
    /\ mu = 0
    /\ call = [t \in Tasks |-> NoCall]

\* the driver calls a task can be in
DriverPcs == {"dial", "handshake", "disconnect", "rpc"}

\* what the calls of the Connector leave alone
notLock == <<monVars, proxyVars, recVars, hubVars, statsVars, targetVars,
             dials, poolRet, mlockVars>>

\* Connector.AddHost: c.mu.Lock(), the lookup; with an entry the call
\* returns (the deferred Unlock runs), without one it goes on to dial,
\* holding the lock.
LockAddHost(t, h) ==
    /\ call[t] = NoCall /\ mu = 0
    /\ IF connections[h] # NoHandle
       THEN UNCHANGED <<mu, call>>
       ELSE /\ mu' = t
            /\ call' = [call EXCEPT ![t] = [pc |-> "dial", h |-> h]]
    /\ UNCHANGED connections
    /\ UNCHANGED notLock

\* dialLibvirt returns
DialReturn(t, ok) ==
    /\ call[t].pc = "dial"
    /\ IF ok
       THEN /\ call' = [call EXCEPT ![t].pc = "handshake"]
            /\ UNCHANGED mu
       ELSE /\ call' = [call EXCEPT ![t] = NoCall]
            /\ mu' = 0
    /\ UNCHANGED connections
    /\ UNCHANGED notLock

\* l.Connect() returns; on success the handle is stored; the deferred
\* Unlock runs
HandshakeReturn(t, ok) ==
    /\ call[t].pc = "handshake"
    /\ connections' = IF ok THEN [connections EXCEPT ![call[t].h] = 1]
                      ELSE connections
    /\ call' = [call EXCEPT ![t] = NoCall]
    /\ mu' = 0
    /\ UNCHANGED notLock

\* Connector.RemoveHost: c.mu.Lock(), the lookup; with an entry the call
\* goes on to l.Disconnect(), holding the lock.
LockRemoveHost(t, h) ==
    /\ call[t] = NoCall /\ mu = 0
    /\ IF connections[h] = NoHandle
       THEN UNCHANGED <<mu, call>>
       ELSE /\ mu' = t
            /\ call' = [call EXCEPT ![t] = [pc |-> "disconnect", h |-> h]]
    /\ UNCHANGED connections
    /\ UNCHANGED notLock

\* l.Disconnect() returns; on success the entry is deleted; the deferred
\* Unlock runs
DisconnectReturn(t, ok) ==
    /\ call[t].pc = "disconnect"
    /\ connections' = IF ok THEN [connections EXCEPT ![call[t].h] = NoHandle]
                      ELSE connections
    /\ call' = [call EXCEPT ![t] = NoCall]
    /\ mu' = 0
    /\ UNCHANGED notLock

\* Connector.GetConnection: RLock, lookup, RUnlock; the caller then makes
\* its RPC on the handle.  RLock waits while a task holds the lock for
\* writing.
LockGetConnection(t, h) ==
    /\ call[t] = NoCall /\ mu = 0
    /\ call' = IF connections[h] = NoHandle THEN call
               ELSE [call EXCEPT ![t] = [pc |-> "rpc", h |-> h]]
    /\ UNCHANGED <<mu, connections>>
    /\ UNCHANGED notLock

\* the RPC returns
RpcReturn(t) ==
    /\ call[t].pc = "rpc"
    /\ call' = [call EXCEPT ![t] = NoCall]
    /\ UNCHANGED <<mu, connections>>
    /\ UNCHANGED notLock

LockNext ==
    \/ \E t \in Tasks, h \in Hosts : LockAddHost(t, h)
    \/ \E t \in Tasks, ok \in BOOLEAN : DialReturn(t, ok)
    \/ \E t \in Tasks, ok \in BOOLEAN : HandshakeReturn(t, ok)
    \/ \E t \in Tasks, h \in Hosts : LockRemoveHost(t, h)
    \/ \E t \in Tasks, ok \in BOOLEAN : DisconnectReturn(t, ok)
    \/ \E t \in Tasks, h \in Hosts : LockGetConnection(t, h)
    \/ \E t \in Tasks : RpcReturn(t)

\* C24: no task holds the pool's lock while a driver call of its own is in
\* progress; so while a task is in a dial, handshake or disconnect for one
\* host, an idle task can look up another host.
C24_NoLockAcrossDriverCalls ==
    /\ \A t \in Tasks : call[t].pc \in DriverPcs => mu # t
    /\ \A t \in Tasks, u \in Tasks, h \in Hosts :
          (/\ call[t].pc \in {"dial", "handshake", "disconnect"}
           /\ call[u] = NoCall /\ h # call[t].h)
          => ENABLED LockGetConnection(u, h)

----------------------------------------------------------------------------
(* The MonitoringManager's locks: m.mu around the map, sub.mu around a
   subscription's lastKnownStats *)

\* the key the calls of this section are about
LockKey == "h1:vm1"

\* the goroutines that take the locks: request tasks and pollers
ReqTask(t) == <<"req", t>>
PollTask(i) == <<"poll", i>>
Free == <<"none", 0>>
LockTasks == {ReqTask(t) : t \in Tasks} \cup {PollTask(i) : i \in SubIds}

MonOps == {"subscribe", "unsubscribe", "unsubscribeAll", "lastKnown"}

NoMonCall == [pc |-> "idle", op |-> "none", c |-> "none", sub |-> NoSub]

MonLockInit ==
    /\ monMu = Free
    /\ subMu = [i \in SubIds |-> Free]
    /\ monCall = [t \in Tasks |-> NoMonCall]

\* what the calls of this section leave alone
notMonLock == <<proxyVars, recVars, poolVars, hubVars, statsVars, targetVars,
                lockVars>>

\* the session whose calls this section follows
LockClient == "c1"

\* a task enters Subscribe, Unsubscribe, UnsubscribeClient (for the session,
\* whose read loop makes one call at a time) or GetLastKnownStats and
\* reaches m.mu.Lock()
MonCallBegin(t, op, c) ==
    /\ monCall[t] = NoMonCall
    /\ IF op = "lastKnown" THEN c = "none"
       ELSE /\ c = LockClient /\ c \notin disconnected
            /\ \A u \in Tasks : monCall[u].c # c
    /\ op = "subscribe" =>
          nextSub + Cardinality({u \in Tasks : monCall[u].op = "subscribe"})
              <= MaxSubs
    /\ monCall' = [monCall EXCEPT
                      ![t] = [pc |-> "wantMu", op |-> op, c |-> c,
                              sub |-> NoSub]]
    /\ UNCHANGED <<monMu, subMu, monVars, notMonLock>>

\* m.mu.Lock() returns
MonCallLock(t) ==
    /\ monCall[t].pc = "wantMu"
    /\ monMu = Free
    /\ monMu' = ReqTask(t)
    /\ monCall' = [monCall EXCEPT ![t].pc = "holdMu"]
    /\ UNCHANGED <<subMu, monVars, notMonLock>>

\* Subscribe: the body and the deferred m.mu.Unlock()
LockedSubscribe(t) ==
    /\ monCall[t].pc = "holdMu" /\ monCall[t].op = "subscribe"
    /\ LET c == monCall[t].c
           k == LockKey
       IN  IF subscriptions[k] = NoSub
           THEN /\ subscriptions' = [subscriptions EXCEPT ![k] = nextSub]
                /\ subKey' = [subKey EXCEPT ![nextSub] = k]
                /\ subClients' = [subClients EXCEPT ![nextSub] = {c}]
                /\ pollPc' = [pollPc EXCEPT ![nextSub] = "select"]
                /\ nextSub' = nextSub + 1
           ELSE /\ subClients' = [subClients EXCEPT
                                     ![subscriptions[k]] = @ \cup {c}]
                /\ UNCHANGED <<subscriptions, subKey, pollPc, nextSub>>
    /\ monMu' = Free
    /\ monCall' = [monCall EXCEPT ![t] = NoMonCall]
    /\ UNCHANGED <<subStop, subLast, pollStats, lastBroadcast, disconnected>>
    /\ UNCHANGED <<subMu, notMonLock>>

\* Unsubscribe: the body and the deferred m.mu.Unlock()
LockedUnsubscribe(t) ==
    /\ monCall[t].pc = "holdMu" /\ monCall[t].op = "unsubscribe"
    /\ LET st == RemoveClient(MonState, monCall[t].c, LockKey)
       IN  /\ subscriptions' = st.subscriptions
           /\ subClients' = st.subClients
           /\ subStop' = st.subStop
    /\ monMu' = Free
    /\ monCall' = [monCall EXCEPT ![t] = NoMonCall]
    /\ UNCHANGED <<subKey, subLast, pollPc, pollStats, nextSub, lastBroadcast,
                   disconnected>>
    /\ UNCHANGED <<subMu, notMonLock>>

\* UnsubscribeClient: the range loop and the deferred m.mu.Unlock()
LockedUnsubscribeClient(t) ==
    /\ monCall[t].pc = "holdMu" /\ monCall[t].op = "unsubscribeAll"
    /\ LET st == RemoveFromAll(MonState, monCall[t].c, Keys)
       IN  /\ subscriptions' = st.subscriptions
           /\ subClients' = st.subClients
           /\ subStop' = st.subStop
    /\ disconnected' = disconnected \cup {monCall[t].c}
    /\ monMu' = Free
    /\ monCall' = [monCall EXCEPT ![t] = NoMonCall]
    /\ UNCHANGED <<subKey, subLast, pollPc, pollStats, nextSub, lastBroadcast>>
    /\ UNCHANGED <<subMu, notMonLock>>

\* GetLastKnownStats: the lookup under m.mu.  Without an entry the call
\* returns nil (the deferred Unlock runs); with one it goes on to
\* sub.mu.RLock(), holding m.mu.
LastKnownLookup(t) ==
    /\ monCall[t].pc = "holdMu" /\ monCall[t].op = "lastKnown"
    /\ IF subscriptions[LockKey] = NoSub
       THEN /\ monMu' = Free
            /\ monCall' = [monCall EXCEPT ![t] = NoMonCall]
       ELSE /\ monCall' = [monCall EXCEPT
                              ![t].pc = "wantSub",
                              ![t].sub = subscriptions[LockKey]]
            /\ UNCHANGED monMu
    /\ UNCHANGED <<subMu, monVars, notMonLock>>

\* GetLastKnownStats: sub.mu.RLock() returns
LastKnownRLock(t) ==
    /\ monCall[t].pc = "wantSub"
    /\ subMu[monCall[t].sub] = Free
    /\ subMu' = [subMu EXCEPT ![monCall[t].sub] = ReqTask(t)]
    /\ monCall' = [monCall EXCEPT ![t].pc = "holdBoth"]
    /\ UNCHANGED <<monMu, monVars, notMonLock>>

\* GetLastKnownStats: return sub.lastKnownStats; the deferred calls run,
\* sub.mu.RUnlock() then m.mu.Unlock()
LastKnownReturn(t) ==
    /\ monCall[t].pc = "holdBoth"
    /\ subMu' = [subMu EXCEPT ![monCall[t].sub] = Free]
    /\ monMu' = Free
    /\ monCall' = [monCall EXCEPT ![t] = NoMonCall]
    /\ UNCHANGED <<monVars, notMonLock>>

\* pollVmStats, case <-ticker.C: the GetDomainStats call returns and the
\* goroutine reaches sub.mu.Lock()
LockedPollFetch(i) ==
    /\ pollPc[i] = "select"
    /\ \E r \in StatsResults :
         pollStats' = [pollStats EXCEPT ![i] =
                          IF r = "error" THEN "shutoff" ELSE r]
    /\ pollPc' = [pollPc EXCEPT ![i] = "wantSub"]
    /\ UNCHANGED <<subscriptions, subKey, subClients, subStop, subLast,
                   nextSub, lastBroadcast, disconnected>>
    /\ UNCHANGED <<monMu, subMu, monCall, notMonLock>>

\* pollVmStats: sub.mu.Lock() returns
PollLockSub(i) ==
    /\ pollPc[i] = "wantSub"
    /\ subMu[i] = Free
    /\ subMu' = [subMu EXCEPT ![i] = PollTask(i)]
    /\ pollPc' = [pollPc EXCEPT ![i] = "holdSub"]
    /\ UNCHANGED <<subscriptions, subKey, subClients, subStop, subLast,
                   pollStats, nextSub, lastBroadcast, disconnected>>
    /\ UNCHANGED <<monMu, monCall, notMonLock>>

\* a poller that keeps sub.mu after the store
SubMuAfterStore_Held(i) == PollTask(i)

\* pollVmStats: the holder of sub.mu after the store, sub.mu.Unlock()
SubMuAfterStore(i) == Free

\* pollVmStats: the store, sub.mu.Unlock(), BroadcastMessage, and the test of
\* the state: running goes back to the select, anything else goes on to
\* m.mu.Lock()
PollStore(i) ==
    /\ pollPc[i] = "holdSub"
    /\ subLast' = [subLast EXCEPT ![i] = pollStats[i]]
    /\ subMu' = [subMu EXCEPT ![i] = SubMuAfterStore(i)]
    /\ lastBroadcast' = <<subKey[i], pollStats[i]>>
    /\ IF pollStats[i] # "running"
       THEN /\ pollPc' = [pollPc EXCEPT ![i] = "wantMu"]
            /\ UNCHANGED pollStats
       ELSE /\ pollPc' = [pollPc EXCEPT ![i] = "select"]
            /\ pollStats' = [pollStats EXCEPT ![i] = "nil"]
    /\ UNCHANGED <<subscriptions, subKey, subClients, subStop, nextSub,
                   disconnected>>
    /\ UNCHANGED <<monMu, monCall, notMonLock>>

\* pollVmStats: m.mu.Lock() returns
PollLockMu(i) ==
    /\ pollPc[i] = "wantMu"
    /\ monMu = Free
    /\ monMu' = PollTask(i)
    /\ pollPc' = [pollPc EXCEPT ![i] = "holdMu"]
    /\ UNCHANGED <<subscriptions, subKey, subClients, subStop, subLast,
                   pollStats, nextSub, lastBroadcast, disconnected>>
    /\ UNCHANGED <<subMu, monCall, notMonLock>>

\* pollVmStats: delete(m.subscriptions, key), m.mu.Unlock(), return
PollDeleteReturn(i) ==
    /\ pollPc[i] = "holdMu"
    /\ subscriptions' = PollDelete(subscriptions, i)
    /\ monMu' = Free
    /\ pollPc' = [pollPc EXCEPT ![i] = "exited"]
    /\ pollStats' = [pollStats EXCEPT ![i] = "nil"]
    /\ UNCHANGED <<subKey, subClients, subStop, subLast, nextSub,
                   lastBroadcast, disconnected>>
    /\ UNCHANGED <<subMu, monCall, notMonLock>>

\* pollVmStats, case <-sub.stop
LockedPollStop(i) ==
    /\ pollPc[i] = "select"
    /\ subStop[i]
    /\ pollPc' = [pollPc EXCEPT ![i] = "exited"]
    /\ UNCHANGED <<subscriptions, subKey, subClients, subStop, subLast,
                   pollStats, nextSub, lastBroadcast, disconnected>>
    /\ UNCHANGED <<monMu, subMu, monCall, notMonLock>>

MonLockNext ==
    \/ \E t \in Tasks, op \in MonOps, c \in {LockClient, "none"} :
          MonCallBegin(t, op, c)
    \/ \E t \in Tasks : MonCallLock(t)
    \/ \E t \in Tasks : LockedSubscribe(t)
    \/ \E t \in Tasks : LockedUnsubscribe(t)
    \/ \E t \in Tasks : LockedUnsubscribeClient(t)
    \/ \E t \in Tasks : LastKnownLookup(t)
    \/ \E t \in Tasks : LastKnownRLock(t)
    \/ \E t \in Tasks : LastKnownReturn(t)
    \/ \E i \in SubIds : LockedPollFetch(i)
    \/ \E i \in SubIds : PollLockSub(i)
    \/ \E i \in SubIds : PollStore(i)
    \/ \E i \in SubIds : PollLockMu(i)
    \/ \E i \in SubIds : PollDeleteReturn(i)
    \/ \E i \in SubIds : LockedPollStop(i)

\* the lock a goroutine is blocked in the Lock or RLock call of
MuLock == <<"mu", 0>>
SubLock(i) == <<"sub", i>>
NoLock == <<"no", 0>>

Wants(a) ==
    IF a[1] = "req"
    THEN CASE monCall[a[2]].pc = "wantMu" -> MuLock
           [] monCall[a[2]].pc = "wantSub" -> SubLock(monCall[a[2]].sub)
           [] OTHER -> NoLock
    ELSE CASE pollPc[a[2]] = "wantMu" -> MuLock
           [] pollPc[a[2]] = "wantSub" -> SubLock(a[2])
           [] OTHER -> NoLock

HolderOf(l) ==
    CASE l[1] = "mu" -> monMu
      [] l[1] = "sub" -> subMu[l[2]]
      [] OTHER -> Free

\* the goroutine waits for a lock another holds
Blocked(a) == a # Free /\ HolderOf(Wants(a)) # Free

HoldsSubMu(a) == \E i \in SubIds : subMu[i] = a

----------------------------------------------------------------------------
(* The WebSocket hub and the sessions' writers *)

\* messages a client's send channel buffers
SendCap == 2
\* messages broadcast in one behaviour
MaxPublished == 3

HubInit ==
    /\ hubClients = {}
    /\ sendCh = [c \in Clients |-> <<>>]
    /\ sendClosed = [c \in Clients |-> FALSE]
    /\ delivered = [c \in Clients |-> <<>>]
    /\ published = <<>>
    /\ evicted = {}
    /\ closeCalls = [c \in Clients |-> 0]

\* vm-stats-updated for a key; seq tells the broadcasts apart
StatsMsg(k, st, seq) == [key |-> k, state |-> st, seq |-> seq]

\* Hub.Run, case client := <-h.register
HubRegister(c) ==
    /\ c \notin hubClients /\ ~sendClosed[c] /\ c \notin disconnected
    /\ hubClients' = hubClients \cup {c}
    /\ UNCHANGED <<sendCh, sendClosed, delivered, published, evicted,
                   closeCalls>>
    /\ UNCHANGED <<monVars, notMonHub>>

\* close(client.send); a second close of a channel panics
Closed(calls, cs) ==
    [c \in Clients |-> IF c \in cs THEN calls[c] + 1 ELSE calls[c]]

\* an unregister that closes the channel without looking the client up
HubUnregister_NoLookup(c) ==
    /\ closeCalls[c] < 2
    /\ hubClients' = hubClients \ {c}
    /\ sendClosed' = [sendClosed EXCEPT ![c] = TRUE]
    /\ closeCalls' = Closed(closeCalls, {c})
    /\ UNCHANGED <<sendCh, delivered, published, evicted>>
    /\ UNCHANGED <<monVars, notMonHub>>

\* Hub.Run, case client := <-h.unregister: a client the map does not hold
\* (never registered, or evicted already) is left alone
HubUnregister(c) ==
    /\ IF c \in hubClients
       THEN /\ hubClients' = hubClients \ {c}
            /\ sendClosed' = [sendClosed EXCEPT ![c] = TRUE]
            /\ closeCalls' = Closed(closeCalls, {c})
       ELSE UNCHANGED <<hubClients, sendClosed, closeCalls>>
    /\ UNCHANGED <<sendCh, delivered, published, evicted>>
    /\ UNCHANGED <<monVars, notMonHub>>

\* a client whose send would block: the default branch of the select
Full_Never(q) == FALSE

Full(q) == Len(q) >= SendCap

\* a channel that hands out the newest message first
Enqueue_Front(q, msg) == <<msg>> \o q

\* client.send <- messageBytes
Enqueue(q, msg) == Append(q, msg)

\* Hub.Run, case message := <-h.broadcast: the loop over the registered
\* clients; a client whose channel is full is closed and deleted.
HubBroadcast(msg) ==
    LET slow == {c \in hubClients : Full(sendCh[c])}
    IN  /\ published' = Append(published, msg)
        /\ sendCh' = [c \in Clients |->
                         IF c \in hubClients \ slow
                         THEN Enqueue(sendCh[c], msg) ELSE sendCh[c]]
        /\ hubClients' = hubClients \ slow
        /\ sendClosed' = [c \in Clients |-> sendClosed[c] \/ c \in slow]
        /\ evicted' = evicted \cup slow
        /\ closeCalls' = Closed(closeCalls, slow)
        /\ UNCHANGED delivered

\* pollVmStats hands its sample to BroadcastMessage; h.broadcast has no
\* buffer, so the hub takes the message in the same instant and runs its
\* loop before it takes the next one.
HubPollPublish(i) ==
    /\ Len(published) < MaxPublished
    /\ PollPublishStep(i)
    /\ HubBroadcast(StatsMsg(subKey[i], pollStats[i], Len(published) + 1))

\* The session's writer takes the next message from its channel and writes
\* it to the socket; a closed channel still hands out what it buffered.
ClientWrite(c) ==
    /\ sendCh[c] # <<>>
    /\ delivered' = [delivered EXCEPT ![c] = Append(@, Head(sendCh[c]))]
    /\ sendCh' = [sendCh EXCEPT ![c] = Tail(@)]
    /\ UNCHANGED <<hubClients, sendClosed, published, evicted, closeCalls>>
    /\ UNCHANGED <<monVars, notMonHub>>

\* sessions connect, subscribe to the statistics of one VM and read or
\* do not read what the hub sends them
HubNext ==
    \/ \E c \in Clients : HubRegister(c)
    \/ \E c \in Clients : HubUnregister(c)
    \/ \E c \in Clients : Subscribe(c, "h1:vm1")
    \/ \E i \in SubIds : PollFetch(i)
    \/ \E i \in SubIds : HubPollPublish(i)
    \/ \E i \in SubIds : PollFinish(i)
    \/ \E c \in Clients : ClientWrite(c)

----------------------------------------------------------------------------
(* Properties of the reconciler and the store *)

\* the domain named n that host h runs, if any
LiveDomain(h, n) == {d \in hv[h] : d.name = n}

\* C5: a reconcile_one whose driver call fails although the domain exists
\* (the host is not connected, or an RPC fails) leaves the store as it was;
\* a row is deleted only when the domain does not exist.
C5_FailedFetchKeepsCache ==
    [][\A p \in Tasks, h \in Hosts, n \in Names :
        \A rpcFault \in BOOLEAN, hwFault \in BOOLEAN, dbFault \in BOOLEAN :
            (/\ LiveDomain(h, n) # {}
             /\ h \notin pool \/ rpcFault
             /\ SyncOneFetchWith(p, h, n, rpcFault, hwFault, dbFault))
            => db' = db]_vars

\* the cache rows of host h, keyed by domain UUID, are the live domains
CacheIsInventory(h) ==
    /\ {r.duuid : r \in {r \in Visible(db.vms) : r.host = h}} = UUIDsOf(hv[h])
    /\ \A r1, r2 \in Visible(db.vms) :
        (r1.host = h /\ r2.host = h /\ r1.duuid = r2.duuid) => r1 = r2

\* C6: when a reconcile_host(h) that ran alone, without a fault and on an
\* unchanging inventory completes, the rows of h are the live domains.
C6_ReconcileHostConverges ==
    [][\A p \in Tasks, h \in Hosts :
        (/\ ReconcilePruneWith(p, FALSE)
         /\ task[p].clean
         /\ task[p].h = h)
        => CacheIsInventory(h)']_vars

\* C7: two rows of different hosts with the same domain UUID have different
\* internal UUIDs, soft-deleted rows included, whatever the interleaving
\* of the operations on the two hosts.
C7_CrossHostDistinctUUID ==
    \A r1, r2 \in db.vms :
        (r1.host # r2.host /\ r1.duuid = r2.duuid) => r1.uuid # r2.uuid

\* the clones of both hosts are cached, one under a minted UUID
C7_ClonesCached ==
    \E r1, r2 \in Visible(db.vms) :
        /\ r1.host # r2.host /\ r1.duuid = r2.duuid
        /\ r1.uuid = r1.duuid /\ r2.uuid \in MintUUIDs

\* C8: no two rows of the cache share (host_id, name), and no two share
\* (host_id, domain_uuid).
C8_RowKeysUnique ==
    \A r1, r2 \in Visible(db.vms) :
        (r1 # r2 /\ r1.host = r2.host) =>
            (r1.name # r2.name /\ r1.duuid # r2.duuid)

\* a domain was renamed to, or re-created under, the name a row of another
\* domain holds, and the reconciliation of it was refused
C8_NameTakenRefused ==
    /\ lastTx.case = "refused"
    /\ \E r \in Visible(db.vms) : \E d \in hv[r.host] :
        d.name = r.name /\ d.uuid # r.duuid

\* C9: a reconcile_one that finds the row and the hardware of the domain as
\* the driver describes them writes nothing: no row of any table is
\* inserted, updated or deleted.
C9_UnchangedWritesNothing ==
    lastTx.matched =>
        (lastTx.case = "unchanged" /\ ~lastTx.changed /\ lastTx.hwWrites = 0)

\* no table holds a row of host h
NoRowsOf(h) ==
    /\ h \notin db.hosts
    /\ \A r \in Visible(db.vms) : r.host # h
    /\ \A w \in db.networks : w.host # h

\* C10: removing a host that was added and reconciled leaves no row with
\* its id in any table.
C10_RemoveHostLeavesNoRows ==
    [][\A p \in Tasks, h \in Hosts :
        (/\ RemoveHostDeleteWith(p, FALSE, FALSE)
         /\ task[p].h = h
         /\ h \in db.hosts /\ hv[h] # {} /\ CacheIsInventory(h))
        => NoRowsOf(h)']_vars

\* C11: the pool's remove of a connected host always removes the entry of
\* the host, whether or not the disconnect succeeds.
C11_RemoveDropsEntry ==
    [][\A p \in Tasks, h \in Hosts :
        (RemoveHostDisconnect(p, h) /\ h \in pool) => h \notin pool']_vars

----------------------------------------------------------------------------
\* C13: when the connect step of add_host fails, the row the call created
\* is rolled back and the driver's error returned: afterwards the store has
\* no host row for the id, the pool is as it was, no event was published
\* and no reconcile was started.
C13_FailedConnectRollsBack ==
    [][\A p \in Tasks, h \in Hosts, dialOk \in BOOLEAN, dbFault \in BOOLEAN :
        (/\ HostAddConnectWith(p, dialOk, dbFault)
         /\ task[p].h = h
         /\ ConnectError(h, dialOk) # "nil")
        => /\ h \notin db'.hosts
           /\ pool' = pool
           /\ lastEvent' = lastEvent
           /\ spawned' = spawned
           /\ lastReturn' = Return("addHost", h, "connect")]_vars

\* the host's rows of the VM table
VMRowsOf(d, h) == {r \in Visible(d.vms) : r.host = h}

\* C14: a successful add_host(h) publishes hosts-changed and starts one
\* background reconcile of h; and when that reconcile wrote rows for the
\* host's domains, which the store still holds as it ends, it ends with
\* vms-changed{h} published.
C14_AddHostThenVMsChanged ==
    [][/\ \A p \in Tasks, h \in Hosts, dialOk \in BOOLEAN, dbFault \in BOOLEAN :
            (/\ HostAddConnectWith(p, dialOk, dbFault)
             /\ task[p].h = h
             /\ ConnectError(h, dialOk) = "nil")
            => /\ lastEvent' = HostsChanged
               /\ spawned'[h] = spawned[h] + 1
       /\ \A p \in Tasks, h \in Hosts, dbFault \in BOOLEAN :
            (/\ ReconcilePruneWith(p, dbFault)
             /\ task[p].h = h
             /\ task[p].changed
             /\ VMRowsOf(db, h) # {})
            => lastEvent' = VMsChanged(h)]_vars

\* C15: remove_host(h), whatever the disconnect did, deletes every VM row
\* of h and the host row and publishes hosts-changed, returning nil; or the
\* host row could not be deleted, the error is returned and nothing is
\* published.
C15_RemoveHostDeletesAll ==
    [][\A p \in Tasks, h \in Hosts, vmFault \in BOOLEAN, hostFault \in BOOLEAN :
        (HostRemoveDeleteWith(p, vmFault, hostFault) /\ task[p].h = h)
        => IF lastReturn'.err = "nil"
           THEN /\ VMRowsOf(db', h) = {}
                /\ h \notin db'.hosts
                /\ lastEvent' = HostsChanged
           ELSE /\ hostFault
                /\ lastEvent' = lastEvent]_vars

\* C16: a lifecycle verb calls the driver first.  When the driver fails the
\* error is returned, no reconcile follows, and store and events are as
\* they were.  When it succeeds the reconcile of that one domain follows,
\* and each of its two steps publishes vms-changed{h} exactly when it
\* reports a change: the pruning of the row when the domain cannot be read,
\* the transaction when it can.
C16_VerbThenReconcile ==
    [][/\ \A p \in Tasks, h \in Hosts, n \in Names, verb \in Verbs,
             rpcFault \in BOOLEAN :
            LifecycleVerbWith(p, h, n, verb, rpcFault)
            => IF DriverVerbFails(h, n, rpcFault)
               THEN /\ lastReturn' = Return(verb, h, "driver")
                    /\ task'[p] = IdleTask
                    /\ db' = db
                    /\ lastEvent' = lastEvent
               ELSE /\ task'[p].op = "lifecycle"
                    /\ db' = db
                    /\ lastEvent' = lastEvent
       /\ \A p \in Tasks, h \in Hosts, n \in Names, rpcFault \in BOOLEAN,
             hwFault \in BOOLEAN, dbFault \in BOOLEAN :
            (/\ LifecycleFetchWith(p, rpcFault, hwFault, dbFault)
             /\ task[p].h = h /\ task[p].n = n)
            => /\ lastReturn'.err = "nil"
               /\ IF DriverFetch(h, n, rpcFault, hwFault).ok
                  THEN /\ task'[p].op = "syncOne"
                       /\ db' = db
                       /\ lastEvent' = lastEvent
                  ELSE IF ~dbFault /\ PruneByName(db, h, n) # db
                  THEN lastEvent' = VMsChanged(h)
                  ELSE lastEvent' = lastEvent
       /\ \A p \in Tasks, h \in Hosts, dbFault \in BOOLEAN :
            (/\ SyncTxWith(p, dbFault)
             /\ task[p].op = "syncOne" /\ task[p].h = h)
            => \E minted \in MintChoices(db, h, task[p].info) :
                 LET res == SyncTxResult(db, h, task[p].info, task[p].hw,
                                         minted)
                 IN  IF res.ok /\ ~dbFault /\ res.changed
                     THEN lastEvent' = VMsChanged(h)
                     ELSE lastEvent' = lastEvent]_vars

\* A verb returned nil on a host whose background reconcile has not run,
\* and vms-changed for that host is the last event: the verb's reconcile
\* changed the cache and published it.
C16_VerbReconciled ==
    /\ lastReturn.op \in Verbs /\ lastReturn.err = "nil"
    /\ task[1] = IdleTask
    /\ spawned[lastReturn.h] = 1
    /\ lastEvent = VMsChanged(lastReturn.h)

\* C17: a poller that fetched a sample that is not running (the state the
\* hypervisor reports, or the shutoff sample put in place of a failed
\* GetDomainStats) stores it in its subscription, broadcasts it once,
\* deletes the map entry of its key and returns; it fetches no more.
C17_NotRunningEndsPoller ==
    /\ [][\A i \in SubIds :
            /\ (PollPublish(i) /\ pollStats[i] # "running")
                => /\ subLast'[i] = pollStats[i]
                   /\ lastBroadcast' = <<subKey[i], pollStats[i]>>
                   /\ pollPc'[i] = "published"
            /\ (pollPc[i] = "published" /\ pollStats[i] # "running")
                => (PollFinish(i)
                        => /\ lastBroadcast' = lastBroadcast
                           /\ subLast' = subLast
                           /\ subscriptions'[subKey[i]] = NoSub
                           /\ pollPc'[i] = "exited")
            /\ pollPc[i] = "exited" => pollPc'[i] = "exited"]_vars
    /\ \A i \in SubIds : DecidedToExit(i) ~> (pollPc[i] = "exited")

\* a poller returned on a shutoff sample it stored and broadcast, without
\* its stop channel having been closed
C17_PollerEnded ==
    \E i \in SubIds :
        /\ pollPc[i] = "exited" /\ ~subStop[i]
        /\ subLast[i] = "shutoff"
        /\ lastBroadcast = <<subKey[i], "shutoff">>
        /\ subscriptions[subKey[i]] = NoSub

\* the sessions subscribed to key k
SubscribersOf(k) ==
    IF subscriptions[k] = NoSub THEN {} ELSE subClients[subscriptions[k]]

\* the messages a sequence holds
Range(q) == {q[j] : j \in 1..Len(q)}

\* what a session has been sent: written to its socket or still buffered
Received(c) == delivered[c] \o sendCh[c]

\* s is the end of t
IsSuffix(s, t) ==
    /\ Len(s) <= Len(t)
    /\ s = SubSeq(t, Len(t) - Len(s) + 1, Len(t))

\* C18: when the hub broadcasts, a registered client whose channel is full
\* is closed and removed and gets nothing; every other registered client
\* gets the message appended and stays; the subscriptions, their subscriber
\* sets and stop channels are untouched and the publishing poller runs on.
\* A closed channel never gets another message.
C18_SlowClientEvicted ==
    [][/\ \A i \in SubIds :
            HubPollPublish(i)
            => /\ \A c \in hubClients :
                    IF Len(sendCh[c]) = SendCap
                    THEN /\ c \notin hubClients'
                         /\ sendClosed'[c]
                         /\ sendCh'[c] = sendCh[c]
                    ELSE /\ c \in hubClients'
                         /\ ~sendClosed'[c]
                         /\ sendCh'[c] =
                              Append(sendCh[c],
                                     StatsMsg(subKey[i], pollStats[i],
                                              Len(published) + 1))
               /\ subscriptions' = subscriptions
               /\ subClients' = subClients
               /\ subStop' = subStop
               /\ pollPc'[i] = "published"
       /\ \A c \in Clients :
            sendClosed[c] => Len(sendCh'[c]) <= Len(sendCh[c])]_vars

\* One of two subscribers of the VM was evicted; the other is registered
\* and was sent the last message, which the evicted one was not; the
\* subscription still lists both and its poller runs.
C18_OneEvictedOtherServed ==
    \E c \in evicted, d \in hubClients :
        /\ sendClosed[c]
        /\ published # <<>>
        /\ published[Len(published)] \in Range(Received(d))
        /\ published[Len(published)] \notin Range(Received(c))
        /\ {c, d} \subseteq SubscribersOf("h1:vm1")
        /\ pollPc[subscriptions["h1:vm1"]] \in {"select", "fetched", "published"}
        /\ ~subStop[subscriptions["h1:vm1"]]

\* C19: what any two registered subscribers of the VM have been sent is,
\* for each, the end of the sequence of published messages: the same
\* messages in the order of publication, as many for the one as for the
\* other over the time both were registered.
C19_SameEventsSameOrder ==
    \A c1 \in hubClients, c2 \in hubClients :
        {c1, c2} \subseteq SubscribersOf("h1:vm1")
        => /\ IsSuffix(Received(c1), published)
           /\ IsSuffix(Received(c2), published)
           /\ Len(Received(c1)) = Len(Received(c2))
                => Received(c1) = Received(c2)

\* two registered subscribers have each been written every message
C19_BothReceivedAll ==
    /\ Clients \subseteq hubClients
    /\ Clients \subseteq SubscribersOf("h1:vm1")
    /\ Len(published) >= 2
    /\ \A c \in Clients : delivered[c] = published

\* C20: a vm-stats-updated message of a VM is put on the channel of the
\* registered sessions subscribed to the VM that have room, and on the
\* channel of no session that is not subscribed to it.
C20_OnlySubscribersReceive ==
    [][\A i \in SubIds :
        HubPollPublish(i)
        => \A c \in Clients :
              /\ (/\ c \in SubscribersOf(subKey[i]) /\ c \in hubClients
                  /\ Len(sendCh[c]) < SendCap)
                 => sendCh'[c] # sendCh[c]
              /\ sendCh'[c] # sendCh[c]
                 => c \in SubscribersOf(subKey[i])]_vars

\* C21: vm_stats for a VM whose key has a subscription in the map that has
\* stored a sample returns that sample and calls no driver; in every other
\* case it makes one driver call and returns what the call gave.
C21_StatsPreferLastKnown ==
    [][\A k \in Keys, r \in StatsResults :
        GetVMStatsWith(k, r)
        => IF subscriptions[k] # NoSub /\ subLast[subscriptions[k]] # "nil"
           THEN statsRet' = StatsReturn(k, "monitor",
                                        subLast[subscriptions[k]], 0)
           ELSE statsRet' = StatsReturn(k, "driver", r, 1)]_vars

\* vm_stats was answered from the sample of a subscription the map holds
C21_AnsweredFromMonitor ==
    /\ statsRet.from = "monitor"
    /\ subscriptions[statsRet.key] # NoSub
    /\ statsRet.value = subLast[subscriptions[statsRet.key]]

----------------------------------------------------------------------------
(* The hardware rows of a reconciled VM *)

\* the rows of VM vmID in the three attachment tables; a PortBinding
\* belongs to the VM that owns its port
VolumeAttachmentsOf(d, vmID) == {a \in d.volAtt : a.vm = vmID}
PortBindingsOf(d, vmID) ==
    {b \in d.bindings : \E q \in d.ports : q.vm = vmID /\ q.mac = b.mac}
GraphicsAttachmentsOf(d, vmID) == {a \in d.gfxAtt : a.vm = vmID}

\* the transaction of task p commits, with the hardware of the domain
TxCommitsWithHardware(p) ==
    /\ SyncTxWith(p, FALSE)
    /\ ~task[p].hw.nil
    /\ \E minted \in MintChoices(db, task[p].h, task[p].info) :
          LET res == SyncTxResult(db, task[p].h, task[p].info, task[p].hw,
                                  minted)
          IN  res.ok /\ db' = res.db

\* the row of the domain task p reconciles, in store d
RowOfTask(d, p) ==
    {r \in Visible(d.vms) :
        r.host = task[p].h /\ r.duuid = task[p].info.uuid}

\* C25: after a reconcile_one that fetched the hardware, the VM has one
\* VolumeAttachment per live disk, one PortBinding per live interface and
\* one GraphicsDeviceAttachment when it has a graphics device, and no other
\* attachment row.
C25_AttachmentsAreLiveHardware ==
    [][\A p \in Tasks :
        TxCommitsWithHardware(p)
        => \A r \in RowOfTask(db', p) :
              /\ VolumeAttachmentsOf(db', r.id) =
                    {[vm |-> r.id, vol |-> k.path, dev |-> k.dev] :
                        k \in task[p].hw.disks}
              /\ PortBindingsOf(db', r.id) =
                    {[mac |-> n.mac, host |-> task[p].h,
                      bridge |-> n.bridge] : n \in task[p].hw.nics}
              /\ GraphicsAttachmentsOf(db', r.id) =
                    (IF task[p].info.graphics = "none" THEN {}
                     ELSE {[vm |-> r.id, dev |-> task[p].info.graphics]})]_vars

C27_PublishedIffRowsChanged ==
    [][/\ \A p \in Tasks, h \in Hosts, dbFault \in BOOLEAN :
            (ReconcilePruneWith(p, dbFault) /\ task[p].h = h)
            => IF task[p].changed \/ VMRowsOf(db', h) # VMRowsOf(db, h)
               THEN lastEvent' = VMsChanged(h)
               ELSE lastEvent' = lastEvent
       /\ \A p \in Tasks, h \in Hosts :
            (BackgroundReconcile(p, h) /\ task'[p] = IdleTask)
            => db' = db /\ lastEvent' = lastEvent]_vars

\* C28: the transaction of reconcile_one returns changed = true exactly
\* when the store it leaves differs from the store it found.
C28_ChangedIffCacheAltered ==
    [][\A p \in Tasks :
        SyncTxWith(p, FALSE)
        => \A minted \in MintChoices(db, task[p].h, task[p].info) :
              LET res == SyncTxResult(db, task[p].h, task[p].info,
                                      task[p].hw, minted)
              IN  (res.ok /\ db' = res.db)
                  => (res.changed <=> db' # db)]_vars

\* C29: the row reconcile_one inserts for a domain of host h has the
\* domain UUID as its internal UUID when no row of another host has that
\* domain UUID; otherwise its internal UUID is none of the domain UUID and
\* the internal UUIDs of the rows the store holds; the rows the store held
\* stay as they were.
C29_InsertedInternalUUID ==
    [][\A p \in Tasks :
        SyncTxWith(p, FALSE)
        => \A r \in db'.vms :
              (r.id \notin {q.id : q \in db.vms})
              => /\ r.host = task[p].h /\ r.duuid = task[p].info.uuid
                 /\ IF \A q \in Visible(db.vms) :
                          q.duuid = r.duuid => q.host = r.host
                    THEN r.uuid = r.duuid
                    ELSE /\ r.uuid # r.duuid
                         /\ r.uuid \notin {q.uuid : q \in db.vms}
                 /\ db.vms \subseteq db'.vms]_vars

\* the last transaction inserted the row of a clone under a minted UUID,
\* next to the row of the other host
C29_InsertedUnderMintedUUID ==
    /\ lastTx.case = "insert"
    /\ \E r \in Visible(db.vms) :
        /\ r.id = Cardinality(db.vms)
        /\ r.uuid \in MintUUIDs
        /\ \E q \in Visible(db.vms) :
            q.host # r.host /\ q.duuid = r.duuid /\ q.uuid = q.duuid

\* C32: a poller that returns because its VM is not running leaves the
\* entry of its key alone when the entry is another subscription than its
\* own.
C32_PollerRemovesOnlyOwn ==
    [][\A i \in SubIds :
        (PollFinish(i) /\ subscriptions[subKey[i]] # i)
        => subscriptions' = subscriptions]_vars

\* C33: every subscription the map holds has at least one subscriber (the
\* operations on the map are atomic under m.mu, so m.mu is free in every
\* state).
C33_EntriesHaveSubscribers ==
    \A k \in Keys :
        subscriptions[k] # NoSub => subClients[subscriptions[k]] # {}

\* the entry of a key was emptied and stopped, and the key has a new
\* subscription with a subscriber
C33_ResubscribedAfterStop ==
    \E k \in Keys, i \in SubIds :
        /\ subKey[i] = k /\ subStop[i] /\ subClients[i] = {}
        /\ subscriptions[k] # NoSub /\ subscriptions[k] # i
        /\ subClients[subscriptions[k]] # {}

\* Unsubscribe(c, k) reaches close(sub.stop)
UnsubscribeCloses(c, k) ==
    /\ subscriptions[k] # NoSub
    /\ subClients[subscriptions[k]] \ {c} = {}

\* UnsubscribeClient(c) reaches close(sub.stop) for the entry of k
UnsubscribeClientCloses(c, k) ==
    /\ subscriptions[k] # NoSub
    /\ c \in subClients[subscriptions[k]]
    /\ subClients[subscriptions[k]] = {c}

\* C35: close(sub.stop) is never called on a stop channel that is closed
\* already: neither by Unsubscribe nor by UnsubscribeClient (the poller
\* closes no channel).
C35_StopClosedAtMostOnce ==
    [][/\ \A c \in Clients, k \in Keys :
            (Unsubscribe(c, k) /\ UnsubscribeCloses(c, k))
            => ~subStop[subscriptions[k]]
       /\ \A c \in Clients, k \in Keys :
            (UnsubscribeClient(c) /\ UnsubscribeClientCloses(c, k))
            => ~subStop[subscriptions[k]]
       /\ \A i \in SubIds : PollFinish(i) => subStop' = subStop]_vars

\* the stop channels of two subscriptions of one key were closed, and the
\* poller of one has returned
C35_TwoStopsClosed ==
    \E i, j \in SubIds :
        /\ i # j /\ subKey[i] = subKey[j]
        /\ subStop[i] /\ subStop[j]
        /\ pollPc[i] = "exited"

\* C39: a Subscribe of a session the entry lists changes nothing; an
\* Unsubscribe of the only subscriber empties the set, closes the stop
\* channel and deletes the entry; an Unsubscribe of one of several only
\* removes the session; an Unsubscribe from a key without an entry changes
\* nothing.
C39_SubscribeIdempotent ==
    [][/\ \A c \in Clients, k \in Keys :
            (/\ Subscribe(c, k)
             /\ subscriptions[k] # NoSub
             /\ c \in subClients[subscriptions[k]])
            => UNCHANGED monVars
       /\ \A c \in Clients, k \in Keys :
            (Unsubscribe(c, k) /\ subscriptions[k] = NoSub)
            => UNCHANGED monVars
       /\ \A c \in Clients, k \in Keys, i \in SubIds :
            (Unsubscribe(c, k) /\ subscriptions[k] = i /\ c \in subClients[i])
            => /\ subClients'[i] = subClients[i] \ {c}
               /\ IF subClients[i] = {c}
                  THEN subscriptions'[k] = NoSub /\ subStop'[i]
                  ELSE subscriptions'[k] = i /\ ~subStop'[i]
               /\ UNCHANGED <<pollPc, nextSub>>]_vars

\* the only subscription ever made was emptied by an Unsubscribe: its stop
\* channel is closed, the map has no entry and no second poller was started
C39_OnlySubscriberLeft ==
    /\ nextSub = 2
    /\ subStop[1] /\ subClients[1] = {}
    /\ subscriptions[subKey[1]] = NoSub
    /\ disconnected = {}

\* C34: no client's send channel is closed twice, and no message is put on
\* a closed channel, whatever the order of registrations, unregister
\* requests, broadcasts and evictions.
C34_SendChannelClosedOnce ==
    [][\A c \in Clients :
        /\ closeCalls'[c] <= 1
        /\ Len(sendCh'[c]) > Len(sendCh[c]) => ~sendClosed[c]]_vars

\* a client was evicted by the broadcast loop: its channel was closed once
\* and the map no longer holds it, so an unregister request finds nothing
C34_EvictedThenClosedOnce ==
    \E c \in evicted :
        closeCalls[c] = 1 /\ sendClosed[c] /\ c \notin hubClients

\* C36: while no AddHost and no RemoveHost call is running, every host the
\* pool holds a connection for has its row in the store.
C36_PooledHostsHaveRows ==
    (\A p \in Tasks : task[p].op \notin {"addHost", "removeHost"})
        => pool \subseteq db.hosts

\* C40: a lifecycle verb whose driver call succeeded and whose reconcile
\* fails (GetDomainInfo fails, or the transaction fails in the store)
\* returns nil and broadcasts nothing.
C40_FailedReconcileIsSilent ==
    [][/\ \A p \in Tasks, hwFault, dbFault \in BOOLEAN :
            LifecycleFetchWith(p, TRUE, hwFault, dbFault)
            => /\ lastEvent' = lastEvent
               /\ lastReturn' = Return(task[p].verb, task[p].h, "nil")
       /\ \A p \in Tasks, dbFault \in BOOLEAN :
            (/\ SyncTxWith(p, dbFault)
             /\ task[p].op = "syncOne"
             /\ \/ dbFault
                \/ \A minted \in MintChoices(db, task[p].h, task[p].info) :
                      ~SyncTxResult(db, task[p].h, task[p].info, task[p].hw,
                                    minted).ok)
            => /\ lastEvent' = lastEvent
               /\ lastReturn' = lastReturn]_vars

\* C37: while the store has no row and the pool no connection for host h
\* (remove_host(h) returned and h was not added again), no VM row of h
\* appears: a reconcile that was running when the host was removed writes
\* none.
C37_NoRowsAfterRemoveHost ==
    [][\A h \in Hosts :
        (h \notin db.hosts /\ h \notin db'.hosts /\ h \notin pool)
        => VMRowsOf(db', h) \subseteq VMRowsOf(db, h)]_vars

\* C38: every Port row has at most one PortBinding.
C38_AtMostOneBindingPerPort ==
    \A q \in db.ports :
        Cardinality({b \in db.bindings : b.mac = q.mac}) <= 1

\* C31: a goroutine that waits for m.mu holds no sub.mu; a goroutine that
\* holds a sub.mu together with m.mu is a GetLastKnownStats call past its
\* RLock, which took m.mu first, and every other holder of a sub.mu is a
\* poller in its store; and no goroutine waits in a cycle: the lock a
\* blocked goroutine wants is held by one that can run, or by one that waits
\* for a lock whose holder can run.
C31_MapMutexFirstNoDeadlock ==
    /\ \A a \in LockTasks : Wants(a) = MuLock => ~HoldsSubMu(a)
    /\ \A t \in Tasks :
          HoldsSubMu(ReqTask(t))
          => /\ monMu = ReqTask(t) /\ monCall[t].pc = "holdBoth"
             /\ subMu[monCall[t].sub] = ReqTask(t)
    /\ \A i \in SubIds :
          HoldsSubMu(PollTask(i))
          => /\ subMu[i] = PollTask(i) /\ pollPc[i] = "holdSub"
             /\ monMu # PollTask(i)
    /\ \A a \in LockTasks :
          Blocked(a)
          => LET b == HolderOf(Wants(a))
             IN  \/ ~Blocked(b)
                 \/ ~Blocked(HolderOf(Wants(b)))

\* a GetLastKnownStats call holds m.mu and waits for the sub.mu a poller
\* holds for its store, while another poller waits for m.mu
C31_ReaderWaitsForPoller ==
    \E t \in Tasks, i \in SubIds, j \in SubIds :
        /\ monCall[t].pc = "wantSub" /\ monCall[t].sub = i
        /\ monMu = ReqTask(t)
        /\ subMu[i] = PollTask(i)
        /\ pollPc[j] = "wantMu"

Init ==
    /\ MonInit /\ ProxyInit /\ RecInit /\ PoolInit /\ HubInit /\ StatsInit
    /\ ConsoleInit /\ LockInit /\ MonLockInit

SpecProxy == Init /\ [][ProxyNext]_vars

SpecMon == Init /\ [][MonNext]_vars

\* The pollers of one key.  A poller between its GetDomainStats call and
\* the end of the tick runs straight-line code: the hub takes the message,
\* m.mu is released by every holder.
SpecPoller ==
    /\ Init
    /\ [][PollerNext]_vars
    /\ \A i \in SubIds : WF_vars(PollPublish(i)) /\ WF_vars(PollFinish(i))

SpecRec == Init /\ [][RecNext]_vars

SpecPool == Init /\ [][PoolNext]_vars

ConcInit ==
    /\ MonInit /\ ProxyInit /\ RestartedInit /\ PoolInit /\ HubInit
    /\ StatsInit /\ ConsoleInit /\ LockInit /\ MonLockInit

SpecConc == ConcInit /\ [][ConcNext]_vars

HostServiceInit ==
    /\ MonInit /\ ProxyInit /\ HostInit /\ PoolInit /\ HubInit
    /\ StatsInit /\ ConsoleInit /\ LockInit /\ MonLockInit

SpecHost == HostServiceInit /\ [][HostNext]_vars

SpecHub == Init /\ [][HubNext]_vars

SpecStats == Init /\ [][StatsNext]_vars

\* one console request, for every domain XML and stored URI of the bounds
TargetInit ==
    /\ MonInit /\ ProxyInit /\ RecInit /\ PoolInit /\ HubInit /\ StatsInit
    /\ cxReq \in Requests
    /\ cxTarget = Pending
    /\ LockInit /\ MonLockInit

SpecTarget == TargetInit /\ [][TargetNext]_vars

SpecLock == Init /\ [][LockNext]_vars

SpecMonLock == Init /\ [][MonLockNext]_vars

====
